---------------------------- MODULE Spec2Model ----------------------------
(***************************************************************************)
(* Model of the solar ephemeris engine of sun-path-atlas:                  *)
(*   photography.ts   computePhotoWindows / findWindows                    *)
(*   sunriseSunset.ts sunriseSunset                                        *)
(*   twilight.ts      twilightBand / twilightTimes                         *)
(*   timezone.ts      parseTimezoneOffset / formatTimezoneOffset           *)
(*   solarPosition.ts solarDeclinationAndEoT                               *)
(*   julian.ts        toJulianDate                                         *)
(*   utils.ts         deg2rad / rad2deg / clamp / normalizeDegrees         *)
(*                                                                         *)
(* Numbers.  JavaScript numbers are modelled as fixed-point integers; the  *)
(* unit of every quantity is stated where it is introduced.  A nullable    *)
(* number is a sequence: <<>> is null, <<v>> is the number v.  The value   *)
(* NaN is the record NaN below.                                            *)
(***************************************************************************)
EXTENDS Integers, Sequences, FiniteSets, TLC

VARIABLES
    \* ---- computePhotoWindows / findWindows ----
    altitudeByMinute,   \* the sample series handed to computePhotoWindows
    goldenRange,        \* <<minAlt, maxAlt>> of the golden scan
    blueRange,          \* <<minAlt, maxAlt>> of the blue scan
    pc,                 \* pc[s] : position of scan s ("wait","loop","ret")
    idx,                \* idx[s]: number of samples scan s has consumed
    windows,            \* windows[s]   : local `windows` of scan s
    start,              \* start[s]     : local `start` (nullable)
    lastMinute,         \* lastMinute[s]: local `lastMinute` (nullable)
    photo,              \* the value returned by computePhotoWindows (nullable)
    \* ---- which entry points the caller invokes in this behaviour ----
    task,               \* "photo", "sun" or "timezone"
    \* ---- sunriseSunset / twilightTimes ----
    latitude,           \* milli-degrees
    longitude,          \* milli-degrees
    dateString,         \* the civil date, a string
    tzOffsetMinutes,    \* milli-minutes
    options,            \* [sunAltitude |-> nullable milli-degrees]
    events,             \* the value returned by sunriseSunset (nullable)
    twilight,           \* the value returned by twilightTimes (nullable)
    \* ---- parseTimezoneOffset ----
    input,              \* the text handed to parseTimezoneOffset
    parsed,             \* the value returned by parseTimezoneOffset (nullable)
    \* ---- getUtcDateFromLocal / solarPosition ----
    minutesLocal,       \* whole minutes from local midnight
    offsetMinutes,      \* whole minutes
    utcDate,            \* Null before the call of getUtcDateFromLocal, then
                        \* Some(r), r the nullable Date it returned
    position,           \* the value returned by solarPosition (nullable)
    again,              \* the value returned by a repeated call (nullable)
    \* ---- normalizeDegrees ----
    degrees,            \* the angle handed to normalizeDegrees
    result,             \* the value returned by normalizeDegrees (nullable)
    \* ---- solarPosition, true solar time (solarPosition.ts:76-80) ----
    solarBase,          \* utcMinutes + equationOfTime, milli-minutes
    solarLongitude,     \* the longitude, milli-degrees, or a double next to it
    solarTime,          \* [trueSolarTime, hourAngle] after line 80 (nullable)
    \* ---- toJulianDate ----
    instant,            \* the Date handed to toJulianDate (a time value)
    julian,             \* the value returned by toJulianDate (nullable)
    \* ---- formatTimezoneOffset ----
    totalMinutes,       \* the offset handed to formatTimezoneOffset
    formatted,          \* the text returned by formatTimezoneOffset (nullable)
    \* ---- formatTimeWithOffset ----
    timeInput,          \* the number handed to formatTimeWithOffset
    clockMinutes,       \* local `minutes`
    dayOffset,          \* local `dayOffset`
    clockPc,            \* the statement formatTimeWithOffset is at, or "idle"
    rendered            \* the text returned by formatTimeWithOffset (nullable)

winVars == <<altitudeByMinute, goldenRange, blueRange, pc, idx, windows,
             start, lastMinute, photo>>

sunVars == <<latitude, longitude, dateString, tzOffsetMinutes, options,
             events, twilight>>

tzVars == <<input, parsed>>

posVars == <<minutesLocal, offsetMinutes, utcDate, position, again>>

angVars == <<degrees, result>>

stVars == <<solarBase, solarLongitude, solarTime>>

julVars == <<instant, julian>>

fmtVars == <<totalMinutes, formatted>>

clockVars == <<timeInput, clockMinutes, dayOffset, clockPc, rendered>>

auxVars == <<stVars, julVars, fmtVars, clockVars>>

vars == <<winVars, task, sunVars, tzVars, posVars, angVars, auxVars>>

-----------------------------------------------------------------------------
(* Bounds of the model.                                                    *)

\* longest sample series explored
MaxLen == 3

-----------------------------------------------------------------------------
(* photography.ts                                                          *)

Null == <<>>
Some(v) == <<v>>

GOLDEN_DEFAULT == <<0, 6>>
BLUE_DEFAULT == <<-6, 0>>

Scans == {"golden", "blue"}

\* altitudes (whole degrees) that fall below, on and above every bound of
\* the ranges used
Altitudes == {-7, -6, 0, 6, 7}
\* sample minutes (5-minute resolution)
Minutes == {0, 5, 10}
Samples == [minute : Minutes, altitude : Altitudes]
SeriesSet == UNION {[1 .. n -> Samples] : n \in 0 .. MaxLen}

\* <<goldenRange, blueRange>> a caller passes: the defaults, or an override
RangePairs == {<<GOLDEN_DEFAULT, BLUE_DEFAULT>>, <<<<-6, 6>>, <<6, 7>>>>}

rangeOf(s) == IF s = "golden" THEN goldenRange ELSE blueRange

\* photography.ts:34   inRange = altitude >= minAlt && altitude <= maxAlt
inRangeMutStrict(point, minAlt, maxAlt) ==
    point.altitude > minAlt /\ point.altitude < maxAlt
inRange(point, minAlt, maxAlt) ==
    point.altitude >= minAlt /\ point.altitude <= maxAlt

\* photography.ts:39,45   { start, end: lastMinute ?? start }
closeWindowMutFirstOnly(st, last) == [start |-> st[1], end |-> st[1]]
closeWindow(st, last) ==
    [start |-> st[1], end |-> IF last # Null THEN last[1] ELSE st[1]]

\* computePhotoWindows is entered with a series and two ranges; the golden
\* scan is called first (photography.ts:19).
WinStart ==
    /\ altitudeByMinute \in SeriesSet
    /\ \E rp \in RangePairs : goldenRange = rp[1] /\ blueRange = rp[2]
    /\ pc = [s \in Scans |-> IF s = "golden" THEN "loop" ELSE "wait"]
    /\ idx = [s \in Scans |-> 0]
    /\ windows = [s \in Scans |-> <<>>]
    /\ start = [s \in Scans |-> Null]
    /\ lastMinute = [s \in Scans |-> Null]
    /\ photo = Null

\* photography.ts:33-43   one iteration of `for (const point of series)`
FindWindowsStepMutShared(s) ==
    /\ pc[s] = "loop"
    /\ idx[s] < Len(altitudeByMinute)
    /\ LET point == altitudeByMinute[idx[s] + 1]
           r == rangeOf(s)
       IN  /\ idx' = [idx EXCEPT ![s] = @ + 1]
           /\ IF inRange(point, r[1], r[2])
              THEN /\ start' = [start EXCEPT
                                  !["golden"] = IF @ = Null THEN Some(point.minute) ELSE @]
                   /\ lastMinute' = [lastMinute EXCEPT !["golden"] = Some(point.minute)]
                   /\ UNCHANGED windows
              ELSE IF start["golden"] # Null
              THEN /\ windows' = [windows EXCEPT
                                    ![s] = Append(@, closeWindow(start["golden"],
                                                            lastMinute["golden"]))]
                   /\ start' = [start EXCEPT !["golden"] = Null]
                   /\ lastMinute' = [lastMinute EXCEPT !["golden"] = Null]
              ELSE UNCHANGED <<windows, start, lastMinute>>
    /\ UNCHANGED <<altitudeByMinute, goldenRange, blueRange, pc, photo>>
    /\ UNCHANGED <<task, sunVars, tzVars, posVars, angVars, auxVars>>
FindWindowsStep(s) ==
    /\ pc[s] = "loop"
    /\ idx[s] < Len(altitudeByMinute)
    /\ LET point == altitudeByMinute[idx[s] + 1]
           r == rangeOf(s)
       IN  /\ idx' = [idx EXCEPT ![s] = @ + 1]
           /\ IF inRange(point, r[1], r[2])
              THEN /\ start' = [start EXCEPT
                                  ![s] = IF @ = Null THEN Some(point.minute) ELSE @]
                   /\ lastMinute' = [lastMinute EXCEPT ![s] = Some(point.minute)]
                   /\ UNCHANGED windows
              ELSE IF start[s] # Null
              THEN /\ windows' = [windows EXCEPT
                                    ![s] = Append(@, closeWindow(start[s], lastMinute[s]))]
                   /\ start' = [start EXCEPT ![s] = Null]
                   /\ lastMinute' = [lastMinute EXCEPT ![s] = Null]
              ELSE UNCHANGED <<windows, start, lastMinute>>
    /\ UNCHANGED <<altitudeByMinute, goldenRange, blueRange, pc, photo>>
    /\ UNCHANGED <<task, sunVars, tzVars, posVars, angVars, auxVars>>

\* photography.ts:44-47   after the loop: flush the open run and return.
\* The return of the golden scan is followed by the call of the blue scan
\* (photography.ts:20).
FindWindowsReturnMutNoFlush(s) ==
    /\ pc[s] = "loop"
    /\ idx[s] = Len(altitudeByMinute)
    /\ pc' = [t \in Scans |->
                IF t = s THEN "ret"
                ELSE IF s = "golden" /\ pc[t] = "wait" THEN "loop" ELSE pc[t]]
    /\ UNCHANGED <<altitudeByMinute, goldenRange, blueRange, idx, windows,
                   start, lastMinute, photo>>
    /\ UNCHANGED <<task, sunVars, tzVars, posVars, angVars, auxVars>>
FindWindowsReturn(s) ==
    /\ pc[s] = "loop"
    /\ idx[s] = Len(altitudeByMinute)
    /\ windows' = [windows EXCEPT
                     ![s] = IF start[s] # Null
                            THEN Append(@, closeWindow(start[s], lastMinute[s]))
                            ELSE @]
    /\ pc' = [t \in Scans |->
                IF t = s THEN "ret"
                ELSE IF s = "golden" /\ pc[t] = "wait" THEN "loop" ELSE pc[t]]
    /\ UNCHANGED <<altitudeByMinute, goldenRange, blueRange, idx, start,
                   lastMinute, photo>>
    /\ UNCHANGED <<task, sunVars, tzVars, posVars, angVars, auxVars>>

ComputePhotoWindowsReturnMutAlias ==
    /\ photo = Null
    /\ \A s \in Scans : pc[s] = "ret"
    /\ photo' = Some([golden |-> windows["golden"], blue |-> windows["golden"]])
    /\ UNCHANGED <<altitudeByMinute, goldenRange, blueRange, pc, idx, windows,
                   start, lastMinute>>
    /\ UNCHANGED <<task, sunVars, tzVars, posVars, angVars, auxVars>>
\* photography.ts:22   return { golden, blue }
ComputePhotoWindowsReturn ==
    /\ photo = Null
    /\ \A s \in Scans : pc[s] = "ret"
    /\ photo' = Some([golden |-> windows["golden"], blue |-> windows["blue"]])
    /\ UNCHANGED <<altitudeByMinute, goldenRange, blueRange, pc, idx, windows,
                   start, lastMinute>>
    /\ UNCHANGED <<task, sunVars, tzVars, posVars, angVars, auxVars>>

NextWin ==
    \/ \E s \in Scans : FindWindowsStep(s)
    \/ \E s \in Scans : FindWindowsReturn(s)
    \/ ComputePhotoWindowsReturn

\* computePhotoWindows is not called
WinIdle ==
    /\ altitudeByMinute = <<>>
    /\ goldenRange = GOLDEN_DEFAULT
    /\ blueRange = BLUE_DEFAULT
    /\ pc = [s \in Scans |-> "wait"]
    /\ idx = [s \in Scans |-> 0]
    /\ windows = [s \in Scans |-> <<>>]
    /\ start = [s \in Scans |-> Null]
    /\ lastMinute = [s \in Scans |-> Null]
    /\ photo = Null

\* the series the caller samples every five minutes (App.tsx:182-188)
SampledSeries ==
    UNION {{[i \in 1 .. n |-> [minute |-> 5 * (i - 1), altitude |-> a[i]]] :
              a \in [1 .. n -> Altitudes]} : n \in 0 .. MaxLen}

\* two calls of findWindows on the same series are in progress at once,
\* one with each range
WinConcurrent ==
    /\ altitudeByMinute \in SampledSeries
    /\ \E rp \in RangePairs : goldenRange = rp[1] /\ blueRange = rp[2]
    /\ pc = [s \in Scans |-> "loop"]
    /\ idx = [s \in Scans |-> 0]
    /\ windows = [s \in Scans |-> <<>>]
    /\ start = [s \in Scans |-> Null]
    /\ lastMinute = [s \in Scans |-> Null]
    /\ photo = Null

-----------------------------------------------------------------------------
(* JavaScript numbers.                                                     *)
(* A number is a record: NaN, or Num(v) with v a fixed-point integer.      *)
(* Units: angles in degrees and times in minutes are in thousandths        *)
(* (milli-degrees, milli-minutes); angles in radians are in millionths     *)
(* (micro-radians); values of sin, cos, tan and cosH are in thousandths;   *)
(* Julian days are in hundredths of a day and Julian centuries in          *)
(* millionths of a century; a Date is its time value in minutes.           *)
(* Arithmetic on NaN yields NaN and every comparison with NaN is false     *)
(* (IEEE 754), which the operators below apply at the level of the         *)
(* functions of the source.                                                *)

NaN == [nan |-> TRUE, v |-> 0]
Num(x) == [nan |-> FALSE, v |-> x]

\* Number.isFinite
isFinite(n) == ~n.nan

\* the element of a singleton set.  { e(v) : v \in {x} } evaluates x once
\* and hands its value to e, as a call evaluates its argument once.
The(S) == CHOOSE r \in S : TRUE

\* one unit of the milli scale, of the micro scale
Milli == 10 ^ 3
Micro == 10 ^ 6

\* floor(a * b / c) for c > 0, computed without leaving 32 bits
MulDiv(a, b, c) == (a \div c) * b + ((a % c) * b) \div c

\* the remainder operator % of JavaScript: the sign of the dividend
JsRem(a, m) == IF a >= 0 THEN a % m ELSE -((-a) % m)

-----------------------------------------------------------------------------
(* utils.ts                                                                *)

\* utils.ts:1   DEG2RAD = Math.PI / 180, in micro-radians per degree
DEG2RAD == 17453

\* Math.PI: the radian measure of 180 degrees
PI == 180 * DEG2RAD

\* utils.ts:4-6    deg * DEG2RAD          (milli-degrees to micro-radians)
deg2rad(deg) == MulDiv(deg, DEG2RAD, Milli)

\* utils.ts:8-10   rad * RAD2DEG, RAD2DEG = 180 / Math.PI
\*                                        (micro-radians to milli-degrees)
rad2deg(rad) == MulDiv(rad, Milli, DEG2RAD)

\* utils.ts:12-14  Math.min(max, Math.max(min, value))
clamp(value, min, max) ==
    LET lower == IF value > min THEN value ELSE min
    IN  IF lower < max THEN lower ELSE max

\* An angle handed to normalizeDegrees: v thousandths of a degree plus
\* tiny times an amount below half the spacing of the doubles at 360
\* (2.8e-14).  A double carries such an amount only next to zero: added to
\* any other value of the scale it is rounded away.
Angle(v) == [v |-> v, tiny |-> 0]
Tiny(sign) == [v |-> 0, tiny |-> sign]
Rounded(v, tiny) == [v |-> v, tiny |-> IF v = 0 THEN tiny ELSE 0]
IsNegative(a) == a.v < 0 \/ (a.v = 0 /\ a.tiny < 0)

\* utils.ts:16-19   normalizeDegrees(angle): angle % 360 keeps the sign of
\* angle and is exact; the sum normalized + 360 is rounded to a double
normalizeDegrees(angle) ==
    LET normalized == Rounded(JsRem(angle.v, 360 * Milli), angle.tiny)
    IN  IF IsNegative(normalized)
        THEN Rounded(normalized.v + 360 * Milli, normalized.tiny)
        ELSE normalized

-----------------------------------------------------------------------------
(* Math.sin, Math.cos, Math.tan, Math.acos, Math.asin of the runtime, as   *)
(* the source calls them: arguments and results of the inverse functions   *)
(* in micro-radians, values in thousandths.                                *)

\* 1000 * sin(k degrees), k = 0 .. 90
SinTable ==
    << 0, 17, 35, 52, 70, 87, 105, 122, 139, 156, 174, 191, 208, 225, 242,
       259, 276, 292, 309, 326, 342, 358, 375, 391, 407, 423, 438, 454, 469,
       485, 500, 515, 530, 545, 559, 574, 588, 602, 616, 629, 643, 656, 669,
       682, 695, 707, 719, 731, 743, 755, 766, 777, 788, 799, 809, 819, 829,
       839, 848, 857, 866, 875, 883, 891, 899, 906, 914, 921, 927, 934, 940,
       946, 951, 956, 961, 966, 970, 974, 978, 982, 985, 988, 990, 993, 995,
       996, 998, 999, 999, 1000, 1000 >>

\* sine of a whole number k of degrees, 0 <= k <= 360
SinDeg(k) ==
    IF k <= 90 THEN SinTable[k + 1]
    ELSE IF k <= 180 THEN SinTable[180 - k + 1]
    ELSE IF k <= 270 THEN -SinTable[k - 180 + 1]
    ELSE -SinTable[360 - k + 1]

\* Math.sin: reduction modulo 2 pi, then linear interpolation in the table
sinOf(rad) ==
    LET t == rad % (2 * PI)
        k == t \div DEG2RAD
        f == t % DEG2RAD
    IN  SinDeg(k) + ((SinDeg(k + 1) - SinDeg(k)) * f) \div DEG2RAD

Sin(rad) == The({sinOf(v) : v \in {rad}})

\* Math.cos.  The cosine of the double nearest to an odd multiple of pi/2
\* is a tiny non-zero number (Math.cos(Math.PI / 2) = 6.1e-17); the
\* smallest positive value of the scale stands for it.
Cos(rad) == The({IF c = 0 THEN 1 ELSE c : c \in {Sin(rad + PI \div 2)}})

\* Math.tan
Tan(rad) == The({(Sin(v) * Milli) \div Cos(v) : v \in {rad}})

\* cosine of a whole number k of degrees, 0 <= k <= 180
CosDeg(k) == SinDeg(k + 90)

\* Math.acos on [-1, 1]: the inverse of the table, linearly interpolated
\* (the least angle whose cosine is at most x); the result is in [0, PI]
\* and does not increase with x
acosOf(x) ==
    IF x <= -Milli THEN PI
    ELSE LET k == CHOOSE j \in 0 .. 180 :
                     CosDeg(j) <= x /\ (j = 0 \/ CosDeg(j - 1) > x)
         IN  IF k = 0 THEN 0
             ELSE (k - 1) * DEG2RAD
                    + ((CosDeg(k - 1) - x) * DEG2RAD)
                        \div (CosDeg(k - 1) - CosDeg(k))

Acos(x) == The({acosOf(v) : v \in {x}})

\* Math.asin on [-1, 1]
Asin(x) == PI \div 2 - Acos(x)

\* tangent of a whole number k of degrees, 0 <= k <= 45, in thousandths
TanDeg(k) == (SinDeg(k) * Milli) \div CosDeg(k)

\* Math.atan on [0, 1] (t in thousandths): the inverse of TanDeg, linearly
\* interpolated; the result is in [0, PI / 4]
atanOf(t) ==
    IF t >= Milli THEN 45 * DEG2RAD
    ELSE LET k == CHOOSE j \in 0 .. 44 : TanDeg(j) <= t /\ t < TanDeg(j + 1)
         IN  k * DEG2RAD + ((t - TanDeg(k)) * DEG2RAD) \div (TanDeg(k + 1) - TanDeg(k))

\* Math.atan2(y, x) for x >= 0 and y >= 0, not both zero: in [0, PI / 2]
atan2Quadrant(y, x) ==
    IF y <= x THEN atanOf(MulDiv(y, Milli, x))
    ELSE PI \div 2 - atanOf(MulDiv(x, Milli, y))

\* Math.atan2(y, x): the angle of the point (x, y), in [-PI, PI];
\* atan2(0, 0) is 0 and atan2(0, x) is PI for x < 0
atan2Of(y, x) ==
    IF x = 0 /\ y = 0 THEN 0
    ELSE The({IF x >= 0 /\ y >= 0 THEN q
              ELSE IF x < 0 /\ y >= 0 THEN PI - q
              ELSE IF x < 0 THEN q - PI
              ELSE -q :
              q \in {atan2Quadrant(IF y < 0 THEN -y ELSE y,
                                   IF x < 0 THEN -x ELSE x)}})

Atan2(y, x) == The({atan2Of(b, a) : b \in {y}, a \in {x}})

-----------------------------------------------------------------------------
(* julian.ts                                                               *)

\* julian.ts:10-15   toJulianDate(date); date is a time value in minutes
\* (or NaN, the time value of an Invalid Date)
toJulianDateMutNoHalfDay(date) ==
    IF date.nan THEN [jd |-> NaN, jc |-> NaN]
    ELSE LET unixDays == MulDiv(date.v, 100, 1440)
             jd == unixDays + 244058700
             jc == MulDiv(jd - 245154500, 10000, 36525)
         IN  [jd |-> Num(jd), jc |-> Num(jc)]
toJulianDate(date) ==
    IF date.nan THEN [jd |-> NaN, jc |-> NaN]
    ELSE LET \* date.getTime() / 86400000
             unixDays == MulDiv(date.v, 100, 1440)
             \* unixDays + 2440587.5
             jd == unixDays + 244058750
             \* (jd - 2451545.0) / 36525
             jc == MulDiv(jd - 245154500, 10000, 36525)
         IN  [jd |-> Num(jd), jc |-> Num(jc)]

-----------------------------------------------------------------------------
(* solarPosition.ts                                                        *)

\* solarPosition.ts:17-60   solarDeclinationAndEoT(jc)
\* The coefficients are those of the source, in the units of the model;
\* x is jc in millionths of a century and xm in thousandths.
solarDeclinationAndEoT(jc) ==
    IF jc.nan THEN [declination |-> NaN, equationOfTime |-> NaN]
    ELSE
    LET x == jc.v
        xm == x \div Milli
        \* 280.46646 + jc * (36000.76983 + jc * 0.0003032)
        geomMeanLong ==
            normalizeDegrees(Angle(280466 + 36 * x + (77 * x) \div 100000
                                   + (3 * xm * xm) \div 10000000)).v
        \* 357.52911 + jc * (35999.05029 - 0.0001537 * jc)
        geomMeanAnomaly ==
            357529 + 36 * x - (95 * x) \div 100000
              - (15 * xm * xm) \div 100000000
        \* 0.016708634 - jc * (0.000042037 + 0.0000001267 * jc), in millionths
        eccentEarthOrbit ==
            16709 - (42 * x) \div Micro - (13 * xm * xm) \div 100000000
        sinM == Sin(deg2rad(geomMeanAnomaly))
        sin2M == Sin(deg2rad(2 * geomMeanAnomaly))
        sin3M == Sin(deg2rad(3 * geomMeanAnomaly))
        \* sin(M) * (1.914602 - jc * (0.004817 + 0.000014 * jc))
        \*  + sin(2M) * (0.019993 - 0.000101 * jc) + sin(3M) * 0.000289
        sunEqCenter ==
            (sinM * (1914602 - (4817 * xm) \div Milli
                       - (14 * xm * xm) \div Micro)) \div Micro
              + (sin2M * (19993 - (101 * x) \div Micro)) \div Micro
              + (sin3M * 289) \div Micro
        sunTrueLong == geomMeanLong + sunEqCenter
        \* 125.04 - 1934.136 * jc
        omega == 125040 - (x + (934 * x) \div Milli + (136 * x) \div Micro)
        \* sunTrueLong - 0.00569 - 0.00478 * sin(omega)
        sunAppLong ==
            sunTrueLong - 6 - (478 * Sin(deg2rad(omega))) \div 100000
        \* 21.448 - jc * (46.815 + jc * (0.00059 - jc * 0.001813)),
        \* in thousandths of an arc second
        seconds == 21448 - (46815 * xm) \div Milli - (59 * xm * xm) \div 100000000
        \* 23 + (26 + seconds / 60) / 60
        meanObliq == 23000 + (26 * 60000 + seconds) \div 3600
        \* meanObliq + 0.00256 * cos(omega)
        obliqCorr == meanObliq + (256 * Cos(deg2rad(omega))) \div 100000
        declination ==
            rad2deg(Asin((Sin(deg2rad(obliqCorr)) * Sin(deg2rad(sunAppLong)))
                           \div Milli))
        \* tan(deg2rad(obliqCorr) / 2); y2 = y * y in millionths
        y == Tan(deg2rad(obliqCorr) \div 2)
        y2 == y * y
        sin2L == Sin(2 * deg2rad(geomMeanLong))
        cos2L == Cos(2 * deg2rad(geomMeanLong))
        sin4L == Sin(4 * deg2rad(geomMeanLong))
        \* the five terms of the equation of time, in micro-radians
        term1 == (y2 * sin2L) \div Milli
        term2 == (2 * eccentEarthOrbit * sinM) \div Milli
        term3 == (((4 * ((eccentEarthOrbit * y2) \div Micro) * sinM) \div Milli)
                    * cos2L) \div Milli
        term4 == (((y2 * y2) \div Micro) * sin4L) \div (2 * Milli)
        term5 == (125 * ((eccentEarthOrbit * eccentEarthOrbit) \div Micro) * sin2M)
                    \div 100000
        equationOfTime == 4 * rad2deg(term1 - term2 + term3 - term4 - term5)
    IN  [declination |-> Num(declination), equationOfTime |-> Num(equationOfTime)]

-----------------------------------------------------------------------------
(* Strings are sequences of one-character strings.                         *)

Digits == {"0", "1", "2", "3", "4", "5", "6", "7", "8", "9"}

DigitValue(c) ==
    CASE c = "0" -> 0 [] c = "1" -> 1 [] c = "2" -> 2 [] c = "3" -> 3
      [] c = "4" -> 4 [] c = "5" -> 5 [] c = "6" -> 6 [] c = "7" -> 7
      [] c = "8" -> 8 [] c = "9" -> 9

\* String.prototype.split('-'): the pieces between the separators; the
\* empty string splits into one empty piece
RECURSIVE splitFrom(_, _, _)
splitFrom(str, i, piece) ==
    IF i > Len(str) THEN <<piece>>
    ELSE IF str[i] = "-" THEN <<piece>> \o splitFrom(str, i + 1, <<>>)
    ELSE splitFrom(str, i + 1, Append(piece, str[i]))

split(str) == splitFrom(str, 1, <<>>)

\* the i-th element of a destructured array: undefined (Null) when the
\* array is shorter
element(parts, i) == IF i <= Len(parts) THEN Some(parts[i]) ELSE Null

RECURSIVE skipWhite(_, _)
skipWhite(str, i) ==
    IF i <= Len(str) /\ str[i] = " " THEN skipWhite(str, i + 1) ELSE i

RECURSIVE digitsEnd(_, _)
digitsEnd(str, i) ==
    IF i <= Len(str) /\ str[i] \in Digits THEN digitsEnd(str, i + 1) ELSE i

RECURSIVE digitsValue(_, _, _)
digitsValue(str, i, j) ==
    IF j < i THEN 0 ELSE 10 * digitsValue(str, i, j - 1) + DigitValue(str[j])

\* Number.parseInt(s, 10): leading white space is skipped, a sign is
\* accepted, the longest prefix of digits is converted and whatever follows
\* it is ignored; NaN when there is no digit.  undefined (Null) is
\* converted to the string "undefined", which has none.
parseInt(s) ==
    IF s = Null THEN NaN
    ELSE LET str == s[1]
             a == skipWhite(str, 1)
             signed == a <= Len(str) /\ str[a] \in {"+", "-"}
             b == IF signed THEN a + 1 ELSE a
             e == digitsEnd(str, b)
         IN  IF e = b THEN NaN
             ELSE IF signed /\ str[a] = "-" THEN Num(-digitsValue(str, b, e - 1))
             ELSE Num(digitsValue(str, b, e - 1))

-----------------------------------------------------------------------------
(* Date.UTC of the runtime (ECMAScript MakeDay, MakeDate, TimeClip)        *)

isLeapYear(y) == (y % 4 = 0 /\ y % 100 # 0) \/ y % 400 = 0

\* day number of 1 January of year y (days since 1970-01-01)
DayFromYear(y) ==
    365 * (y - 1970) + ((y - 1969) \div 4) - ((y - 1901) \div 100)
      + ((y - 1601) \div 400)

\* days before the first of month m (0 = January) in a year
DaysBeforeMonth(m, leap) ==
    LET cumul == <<0, 31, 59, 90, 120, 151, 181, 212, 243, 273, 304, 334>>
    IN  cumul[m + 1] + (IF leap /\ m >= 2 THEN 1 ELSE 0)

\* the time value that cannot be exceeded: 8.64e15 ms = 100 000 000 days
MaxTimeDays == 10 ^ 8

\* Date.UTC(year, monthIndex, day, 0, 0, 0) for integer arguments, as a
\* time value in minutes: a year 0 .. 99 means 1900 + year, months and
\* days out of range carry over, and a time beyond the range of Date is NaN
DateUTC(year, monthIndex, day) ==
    LET yr == IF year >= 0 /\ year <= 99 THEN 1900 + year ELSE year
        ym == yr + (monthIndex \div 12)
        mn == monthIndex % 12
        days == DayFromYear(ym) + DaysBeforeMonth(mn, isLeapYear(ym)) + day - 1
    IN  IF days > MaxTimeDays \/ days < -MaxTimeDays THEN NaN
        ELSE Num(days * 1440)

-----------------------------------------------------------------------------
(* Arithmetic and comparison of numbers that may be NaN                    *)

Add(a, b) == IF a.nan \/ b.nan THEN NaN ELSE Num(a.v + b.v)
Sub(a, b) == IF a.nan \/ b.nan THEN NaN ELSE Num(a.v - b.v)
Times(k, a) == IF a.nan THEN NaN ELSE Num(k * a.v)
Gt(a, b) == ~a.nan /\ ~b.nan /\ a.v > b.v
Lt(a, b) == ~a.nan /\ ~b.nan /\ a.v < b.v
Le(a, b) == ~a.nan /\ ~b.nan /\ a.v <= b.v

-----------------------------------------------------------------------------
(* sunriseSunset.ts                                                        *)

\* sunriseSunset.ts:54-57
\*   cos(deg2rad(zenith)) / (cos(latRad) * cos(declRad))
\*     - tan(latRad) * tan(declRad)
\* latRad, declRad in micro-radians, zenith in milli-degrees; NaN when the
\* declination is NaN
solveCosH(zenith, latRad, declination) ==
    IF declination.nan THEN NaN
    ELSE The({Num((Cos(deg2rad(zenith)) * Micro) \div (Cos(latRad) * Cos(declRad))
                    - (Tan(latRad) * Tan(declRad)) \div Milli) :
              declRad \in {deg2rad(declination.v)}})

\* sunriseSunset.ts:59    if (cosH > 1)
isPolarNightMutAbs(cosH) == Gt(cosH, Num(Milli)) \/ Lt(cosH, Num(-Milli))
isPolarNight(cosH) == Gt(cosH, Num(Milli))

\* sunriseSunset.ts:69    if (cosH < -1)
isPolarDayMutNever(cosH) == FALSE
isPolarDay(cosH) == Lt(cosH, Num(-Milli))

\* sunriseSunset.ts:79    rad2deg(Math.acos(clamp(cosH, -1, 1)))
hourAngleOfMutRadians(cosH) ==
    IF cosH.nan THEN NaN
    ELSE Num(Acos(clamp(cosH.v, -Milli, Milli)) \div Milli)
hourAngleOf(cosH) ==
    IF cosH.nan THEN NaN
    ELSE Num(rad2deg(Acos(clamp(cosH.v, -Milli, Milli))))

\* sunriseSunset.ts:50,84,85   utcMinutes + tzOffsetMinutes
localMinutesMutWrap(utcMinutes, tz) ==
    IF utcMinutes.nan THEN NaN ELSE Num((utcMinutes.v + tz) % (1440 * Milli))
localMinutesMutNoOffset(utcMinutes, tz) == utcMinutes
localMinutes(utcMinutes, tz) == Add(utcMinutes, Num(tz))

\* sunriseSunset.ts:50,59-89   the three results, by the value of cosH
sunEvents(solarNoonUtcMinutes, cosH, tz) ==
    LET solarNoonMinutes == localMinutes(solarNoonUtcMinutes, tz)
    IN
    IF isPolarNight(cosH)
    THEN [sunriseMinutes |-> Null, sunsetMinutes |-> Null,
          solarNoonMinutes |-> Some(solarNoonMinutes),
          daylightMinutes |-> Some(Num(0)),
          status |-> "polar-night"]
    ELSE IF isPolarDay(cosH)
    THEN [sunriseMinutes |-> Null, sunsetMinutes |-> Null,
          solarNoonMinutes |-> Some(solarNoonMinutes),
          daylightMinutes |-> Some(Num(1440 * Milli)),
          status |-> "polar-day"]
    ELSE
    The({LET sunriseUtcMinutes == Sub(solarNoonUtcMinutes, Times(4, hourAngle))
             sunsetUtcMinutes == Add(solarNoonUtcMinutes, Times(4, hourAngle))
         IN  [sunriseMinutes |-> Some(localMinutes(sunriseUtcMinutes, tz)),
              sunsetMinutes |-> Some(localMinutes(sunsetUtcMinutes, tz)),
              solarNoonMinutes |-> Some(solarNoonMinutes),
              daylightMinutes |-> Some(Times(8, hourAngle)),
              status |-> "normal"] :
         hourAngle \in {hourAngleOf(cosH)}})

\* sunriseSunset.ts:45-57   declination and equation of time of the date,
\* solar noon and cosH; year, month, day are the parsed integers
sunriseSunsetOfDate(lat, lon, year, month, day, tz, opts) ==
    The({LET declination == sol.declination
             equationOfTime == sol.equationOfTime
             solarNoonUtcMinutes == Sub(Num(720 * Milli - 4 * lon), equationOfTime)
             latRad == deg2rad(lat)
             \* 90 - (options.sunAltitude ?? -0.833)
             zenith == 90 * Milli
                         - (IF opts.sunAltitude # Null THEN opts.sunAltitude[1]
                            ELSE -833)
         IN  The({sunEvents(solarNoonUtcMinutes, cosH, tz) :
                  cosH \in {solveCosH(zenith, latRad, declination)}}) :
         sol \in {solarDeclinationAndEoT(jc) :
                    jc \in {toJulianDate(DateUTC(year, month - 1, day)).jc}}})

\* sunriseSunset.ts:35   !isFinite(year) || !isFinite(month) || !isFinite(day)
invalidDateMutYearOnly(year, month, day) == ~isFinite(year)
invalidDate(year, month, day) ==
    ~isFinite(year) \/ ~isFinite(month) \/ ~isFinite(day)

\* sunriseSunset.ts:23-90   sunriseSunset(latitude, longitude, dateString,
\*                                        tzOffsetMinutes, options)
sunriseSunset(lat, lon, dateStr, tz, opts) ==
    The({IF invalidDate(year, month, day)
         THEN [sunriseMinutes |-> Null, sunsetMinutes |-> Null,
               solarNoonMinutes |-> Null, daylightMinutes |-> Null,
               status |-> "normal"]
         ELSE sunriseSunsetOfDate(lat, lon, year.v, month.v, day.v, tz, opts) :
         year \in {parseInt(element(split(dateStr), 1))},
         month \in {parseInt(element(split(dateStr), 2))},
         day \in {parseInt(element(split(dateStr), 3))}})

-----------------------------------------------------------------------------
(* twilight.ts                                                             *)

\* twilight.ts:45-60   the band, by the value of cosH
twilightBandOfCosHMutNoOffset(solarNoonUtcMinutes, cosH, tz) ==
    IF Gt(cosH, Num(Milli)) THEN [start |-> Null, end |-> Null]
    ELSE IF Lt(cosH, Num(-Milli)) THEN [start |-> Null, end |-> Null]
    ELSE
    The({[start |-> Some(Sub(solarNoonUtcMinutes, Times(4, hourAngle))),
          end |-> Some(Add(solarNoonUtcMinutes, Times(4, hourAngle)))] :
         hourAngle \in {IF cosH.nan THEN NaN
                        ELSE Num(rad2deg(Acos(clamp(cosH.v, -Milli, Milli))))}})
twilightBandOfCosH(solarNoonUtcMinutes, cosH, tz) ==
    IF Gt(cosH, Num(Milli)) THEN [start |-> Null, end |-> Null]
    ELSE IF Lt(cosH, Num(-Milli)) THEN [start |-> Null, end |-> Null]
    ELSE
    The({LET startUtcMinutes == Sub(solarNoonUtcMinutes, Times(4, hourAngle))
             endUtcMinutes == Add(solarNoonUtcMinutes, Times(4, hourAngle))
         IN  [start |-> Some(Add(startUtcMinutes, Num(tz))),
              end |-> Some(Add(endUtcMinutes, Num(tz)))] :
         hourAngle \in {IF cosH.nan THEN NaN
                        ELSE Num(rad2deg(Acos(clamp(cosH.v, -Milli, Milli))))}})

\* twilight.ts:32-43   declination and equation of time of the date, solar
\* noon and cosH
twilightBandOfDate(lat, lon, year, month, day, tz, sunAltitude) ==
    The({LET declination == sol.declination
             equationOfTime == sol.equationOfTime
             solarNoonUtcMinutes == Sub(Num(720 * Milli - 4 * lon), equationOfTime)
             latRad == deg2rad(lat)
             zenith == 90 * Milli - sunAltitude
         IN  The({twilightBandOfCosH(solarNoonUtcMinutes, cosH, tz) :
                  cosH \in {IF declination.nan THEN NaN
                            ELSE The({Num((Cos(deg2rad(zenith)) * Micro)
                                            \div (Cos(latRad) * Cos(declRad))
                                          - (Tan(latRad) * Tan(declRad)) \div Milli) :
                                      declRad \in {deg2rad(declination.v)}})}}) :
         sol \in {solarDeclinationAndEoT(jc) :
                    jc \in {toJulianDate(DateUTC(year, month - 1, day)).jc}}})

\* twilight.ts:16-61   twilightBand(latitude, longitude, dateString,
\*                                  tzOffsetMinutes, sunAltitude)
twilightBand(lat, lon, dateStr, tz, sunAltitude) ==
    The({IF ~isFinite(year) \/ ~isFinite(month) \/ ~isFinite(day)
         THEN [start |-> Null, end |-> Null]
         ELSE twilightBandOfDate(lat, lon, year.v, month.v, day.v, tz, sunAltitude) :
         year \in {parseInt(element(split(dateStr), 1))},
         month \in {parseInt(element(split(dateStr), 2))},
         day \in {parseInt(element(split(dateStr), 3))}})

\* twilight.ts:63-74   twilightTimes
twilightTimes(lat, lon, dateStr, tz) ==
    [civil |-> twilightBand(lat, lon, dateStr, tz, -6 * Milli),
     nautical |-> twilightBand(lat, lon, dateStr, tz, -12 * Milli),
     astronomical |-> twilightBand(lat, lon, dateStr, tz, -18 * Milli)]

-----------------------------------------------------------------------------
(* The calls of sunriseSunset and twilightTimes.  The caller computes both *)
(* from the same latitude, longitude, date and offset (App.tsx:170, 175).  *)

\* latitudes and longitudes (whole degrees) and offsets (whole minutes)
Latitudes == {-90, -70, -45, 0, 45, 60, 70, 90}
Longitudes == {-180, 0, 120}
TzOffsets == {-720, 0, 480, 840}

\* options: sunAltitude absent, or one of the twilight thresholds
SunAltitudes == {Null, Some(-6 * Milli), Some(-12 * Milli), Some(-18 * Milli)}

\* civil dates: an equinox and the two solstices, a date with text after
\* the day, dates with a component that is missing, empty or not a number,
\* and a date whose year Date cannot represent
DateStrings ==
    { <<"2", "0", "2", "4", "-", "0", "3", "-", "2", "0">>,
      <<"2", "0", "2", "4", "-", "0", "6", "-", "2", "1">>,
      <<"2", "0", "2", "4", "-", "1", "2", "-", "2", "1">>,
      <<"2", "0", "2", "4", "-", "0", "6", "-", "2", "1", "x">>,
      <<"2", "0", "2", "4", "-", "0", "6">>,
      <<"2", "0", "2", "4", "-", "-", "2", "1">>,
      <<"a", "b", "c", "d", "-", "0", "1", "-", "0", "1">>,
      <<>>,
      <<"2", "7", "5", "7", "6", "1", "-", "0", "1", "-", "0", "1">> }

SunStart ==
    /\ latitude \in {d * Milli : d \in Latitudes}
    /\ longitude \in {d * Milli : d \in Longitudes}
    /\ dateString \in DateStrings
    /\ tzOffsetMinutes \in {m * Milli : m \in TzOffsets}
    /\ options \in [sunAltitude : SunAltitudes]
    /\ events = Null
    /\ twilight = Null

\* neither function is called
SunIdle ==
    /\ latitude = 0
    /\ longitude = 0
    /\ dateString = <<>>
    /\ tzOffsetMinutes = 0
    /\ options = [sunAltitude |-> Null]
    /\ events = Null
    /\ twilight = Null

\* the call of sunriseSunset returns
SunriseSunset ==
    /\ task \in {"sun", "engine"}
    /\ events = Null
    /\ events' = Some(sunriseSunset(latitude, longitude, dateString,
                                    tzOffsetMinutes, options))
    /\ UNCHANGED <<latitude, longitude, dateString, tzOffsetMinutes, options,
                   twilight, task, winVars, tzVars,
                   posVars, angVars, auxVars>>

\* the call of twilightTimes returns
TwilightTimes ==
    /\ task = "sun"
    /\ twilight = Null
    /\ twilight' = Some(twilightTimes(latitude, longitude, dateString,
                                      tzOffsetMinutes))
    /\ UNCHANGED <<latitude, longitude, dateString, tzOffsetMinutes, options,
                   events, task, winVars, tzVars,
                   posVars, angVars, auxVars>>

NextSun == SunriseSunset \/ TwilightTimes

-----------------------------------------------------------------------------
(* timezone.ts: parseTimezoneOffset                                        *)

\* the white space String.prototype.trim removes
WhiteSpace == {" ", "\t", "\n"}

\* String.prototype.trim
RECURSIVE trimStart(_)
trimStart(str) ==
    IF str # <<>> /\ Head(str) \in WhiteSpace THEN trimStart(Tail(str)) ELSE str

RECURSIVE trimEnd(_)
trimEnd(str) ==
    IF str # <<>> /\ str[Len(str)] \in WhiteSpace
    THEN trimEnd(SubSeq(str, 1, Len(str) - 1))
    ELSE str

trim(str) == trimEnd(trimStart(str))

\* String.prototype.toUpperCase
LowerCase ==
    <<"a", "b", "c", "d", "e", "f", "g", "h", "i", "j", "k", "l", "m",
      "n", "o", "p", "q", "r", "s", "t", "u", "v", "w", "x", "y", "z">>
UpperCase ==
    <<"A", "B", "C", "D", "E", "F", "G", "H", "I", "J", "K", "L", "M",
      "N", "O", "P", "Q", "R", "S", "T", "U", "V", "W", "X", "Y", "Z">>

toUpperCase(str) ==
    [i \in 1..Len(str) |->
        IF \E k \in 1..Len(LowerCase) : LowerCase[k] = str[i]
        THEN UpperCase[CHOOSE k \in 1..Len(LowerCase) : LowerCase[k] = str[i]]
        ELSE str[i]]

\* str.replace(/^prefix/, '')
removePrefix(str, prefix) ==
    IF Len(str) >= Len(prefix) /\ SubSeq(str, 1, Len(prefix)) = prefix
    THEN SubSeq(str, Len(prefix) + 1, Len(str))
    ELSE str

\* timezone.ts:81   TZ_PATTERN = /^([+-])?(\d{1,2})(?::?(\d{2}))?$/
\* The ways of reading str as sign, hours, colon and minutes: s, h, c and
\* m are the lengths of the four parts.
TzReadingsMutColon(str) ==
    { r \in [s : 0..1, h : 1..2, c : 0..1, m : {0, 2}] :
        /\ r.s + r.h + r.c + r.m = Len(str)
        /\ r.c = 1 <=> r.m = 2
        /\ r.s = 1 => str[1] \in {"+", "-"}
        /\ \A i \in (r.s + 1)..(r.s + r.h) : str[i] \in Digits
        /\ r.c = 1 => str[r.s + r.h + 1] = ":"
        /\ \A i \in (r.s + r.h + r.c + 1)..Len(str) : str[i] \in Digits }

TzReadings(str) ==
    { r \in [s : 0..1, h : 1..2, c : 0..1, m : {0, 2}] :
        /\ r.s + r.h + r.c + r.m = Len(str)
        /\ r.c = 1 => r.m = 2
        /\ r.s = 1 => str[1] \in {"+", "-"}
        /\ \A i \in (r.s + 1)..(r.s + r.h) : str[i] \in Digits
        /\ r.c = 1 => str[r.s + r.h + 1] = ":"
        /\ \A i \in (r.s + r.h + r.c + 1)..Len(str) : str[i] \in Digits }

\* cleaned.match(TZ_PATTERN): Null when there is no match, else the three
\* groups; an unmatched group is undefined (Null).  \d{1,2} is greedy: it
\* takes two digits when the rest still matches.
match(str) ==
    IF TzReadings(str) = {} THEN Null
    ELSE LET r == CHOOSE x \in TzReadings(str) :
                      \A y \in TzReadings(str) : y.h <= x.h
         IN  Some([sign |-> IF r.s = 1 THEN Some(<<str[1]>>) ELSE Null,
                   hours |-> Some(SubSeq(str, r.s + 1, r.s + r.h)),
                   minutes |-> IF r.m = 2
                               THEN Some(SubSeq(str, Len(str) - 1, Len(str)))
                               ELSE Null])

\* timezone.ts:107   hours > 14 || minutes >= 60
outOfRangeMutDay(hours, minutes) == hours > 23 \/ minutes >= 60
outOfRange(hours, minutes) == hours > 14 \/ minutes >= 60

\* timezone.ts:83-112   parseTimezoneOffset(input)
parseTimezoneOffsetMutKeepMinutes(text) ==
    LET raw == toUpperCase(trim(text))
        cleaned == removePrefix(removePrefix(raw, <<"U", "T", "C">>),
                                <<"G", "M", "T">>)
        m == match(cleaned)
        sign == IF m[1].sign = Some(<<"-">>) THEN -1 ELSE 1
        hours == parseInt(m[1].hours)
        minutes == parseInt(IF m[1].minutes # Null THEN m[1].minutes
                            ELSE Some(<<"0">>))
    IN  IF raw = <<>> THEN [minutes |-> 0, isValid |-> FALSE]
        ELSE IF raw \in {<<"Z">>, <<"U", "T", "C">>, <<"G", "M", "T">>}
        THEN [minutes |-> 0, isValid |-> TRUE]
        ELSE IF m = Null THEN [minutes |-> 0, isValid |-> FALSE]
        ELSE IF hours.nan \/ minutes.nan THEN [minutes |-> 0, isValid |-> FALSE]
        ELSE IF outOfRange(hours.v, minutes.v)
        THEN [minutes |-> sign * (hours.v * 60 + minutes.v), isValid |-> FALSE]
        ELSE [minutes |-> sign * (hours.v * 60 + minutes.v), isValid |-> TRUE]

parseTimezoneOffset(text) ==
    LET raw == toUpperCase(trim(text))
        cleaned == removePrefix(removePrefix(raw, <<"U", "T", "C">>),
                                <<"G", "M", "T">>)
        m == match(cleaned)
        sign == IF m[1].sign = Some(<<"-">>) THEN -1 ELSE 1
        hours == parseInt(m[1].hours)
        minutes == parseInt(IF m[1].minutes # Null THEN m[1].minutes
                            ELSE Some(<<"0">>))
    IN  IF raw = <<>> THEN [minutes |-> 0, isValid |-> FALSE]
        ELSE IF raw \in {<<"Z">>, <<"U", "T", "C">>, <<"G", "M", "T">>}
        THEN [minutes |-> 0, isValid |-> TRUE]
        ELSE IF m = Null THEN [minutes |-> 0, isValid |-> FALSE]
        ELSE IF hours.nan \/ minutes.nan THEN [minutes |-> 0, isValid |-> FALSE]
        ELSE IF outOfRange(hours.v, minutes.v)
        THEN [minutes |-> 0, isValid |-> FALSE]
        ELSE [minutes |-> sign * (hours.v * 60 + minutes.v), isValid |-> TRUE]

\* the texts handed to parseTimezoneOffset (App.tsx:150 passes what the
\* user typed): a prefix, a sign, hours and minutes, and trailing space
TzPrefixes ==
    { <<>>, <<" ">>, <<"U", "T", "C">>, <<"u", "t", "c">>, <<"G", "M", "T">>,
      <<"Z">>, <<"U", "T", "C", "G", "M", "T">> }
TzSigns == { <<>>, <<"+">>, <<"-">> }
TzDigits ==
    { <<>>, <<"8">>, <<"0", "8">>, <<"1", "4">>, <<"1", "5">>,
      <<"5", "3", "0">>, <<"0", "8", "0", "0">>,
      <<"0", "8", ":", "0", "0">>, <<"1", "5", ":", "0", "0">>,
      <<"1", "4", ":", "5", "9">>, <<"0", "8", ":", "6", "0">>,
      <<"8", ":", "3">>, <<"0", "8", "0", "0", "0">> }
TzSuffixes == { <<>>, <<" ">>, <<"x">> }

TzInputs ==
    { p \o s \o d \o x :
        p \in TzPrefixes, s \in TzSigns, d \in TzDigits, x \in TzSuffixes }

TzStart ==
    /\ input \in TzInputs
    /\ parsed = Null

\* parseTimezoneOffset is not called
TzIdle ==
    /\ input = <<>>
    /\ parsed = Null

\* the call of parseTimezoneOffset returns
ParseTimezoneOffset ==
    /\ task \in {"timezone", "engine"} \/ (task = "format" /\ formatted # Null)
    /\ parsed = Null
    /\ parsed' = Some(parseTimezoneOffset(input))
    /\ UNCHANGED <<input, task, winVars, sunVars, posVars, angVars, auxVars>>

NextTz == ParseTimezoneOffset

-----------------------------------------------------------------------------
(* time.ts: getUtcDateFromLocal                                            *)

\* new Date(t): the time value t (minutes) when it is within the range of
\* Date, else an invalid Date (NaN)
newDate(t) ==
    IF t.nan THEN NaN
    ELSE LET a == IF t.v < 0 THEN -t.v ELSE t.v
         IN  IF a \div 1440 > MaxTimeDays
                  \/ (a \div 1440 = MaxTimeDays /\ a % 1440 > 0)
             THEN NaN
             ELSE t

\* time.ts:16-17   baseUtc + (minutesLocal - offsetMinutes) * 60 * 1000,
\* in minutes
utcTimeMutAddOffset(baseUtc, local, offset) == Add(baseUtc, Num(local + offset))
utcTime(baseUtc, local, offset) == Add(baseUtc, Num(local - offset))

\* time.ts:12   Number.isNaN(baseUtc)
baseIsNaN(baseUtc) == baseUtc.nan

\* time.ts:1-19   getUtcDateFromLocal(dateString, minutesLocal,
\*                                    offsetMinutes): Null or Some(date)
getUtcDateFromLocal(dateStr, local, offset) ==
    The({IF ~isFinite(year) \/ ~isFinite(month) \/ ~isFinite(day) THEN Null
         ELSE The({IF baseIsNaN(baseUtc) THEN Null
                   ELSE Some(newDate(utcTime(baseUtc, local, offset))) :
                   baseUtc \in {DateUTC(year.v, month.v - 1, day.v)}}) :
         year \in {parseInt(element(split(dateStr), 1))},
         month \in {parseInt(element(split(dateStr), 2))},
         day \in {parseInt(element(split(dateStr), 3))}})

-----------------------------------------------------------------------------
(* solarPosition.ts: solarPosition                                         *)

\* solarPosition.ts:92-101   normalizeDegrees(rad2deg(Math.atan2(..)) + 180)
azimuthOfMutNoShift(atan) == rad2deg(atan)
azimuthOf(atan) == normalizeDegrees(Angle(rad2deg(atan) + 180 * Milli)).v

\* solarPosition.ts:76   utcMinutes + equationOfTime + 4 * longitude, with
\* base = utcMinutes + equationOfTime; a longitude is a value of the scale
\* or the double next below or above it (tiny), and the difference survives
\* the sum only when the rest cancels
solarSumOf(base, lon) == Rounded(base + 4 * lon.v, lon.tiny)

\* solarPosition.ts:76-77   trueSolarTime = sum % 1440, + 1440 if negative:
\* the remainder keeps the sign of the sum and is exact, the sum
\* trueSolarTime + 1440 is rounded to a double
trueSolarTimeOf(sum) ==
    LET rem == Rounded(JsRem(sum.v, 1440 * Milli), sum.tiny)
    IN  IF IsNegative(rem)
        THEN Rounded(rem.v + 1440 * Milli, rem.tiny)
        ELSE rem

\* solarPosition.ts:79-80   hourAngle = trueSolarTime / 4 - 180, + 360 if
\* below -180
hourAngleOfSolarTime(trueSolarTime) ==
    LET h == trueSolarTime.v \div 4 - 180 * Milli
    IN  IF h < -180 * Milli THEN h + 360 * Milli ELSE h

\* solarPosition.ts:66-103   solarPosition(latitude, longitude, dateUtc),
\* dateUtc a valid Date (a time value in minutes)
solarPosition(lat, lon, dateUtc) ==
    The({LET declination == sol.declination.v
             equationOfTime == sol.equationOfTime.v
             \* getUTCHours() * 60 + getUTCMinutes() + ...
             utcMinutes == (dateUtc.v % 1440) * Milli
             trueSolarTime ==
                 trueSolarTimeOf(solarSumOf(utcMinutes + equationOfTime,
                                            [v |-> lon, tiny |-> 0]))
             hourAngle == hourAngleOfSolarTime(trueSolarTime)
         IN  The({LET cosZenith ==
                          (sinLat * sinDecl) \div Milli
                            + (((cosLat * cosDecl) \div Milli) * cosHour) \div Milli
                      zenith == rad2deg(Acos(clamp(cosZenith, -Milli, Milli)))
                      altitude == 90 * Milli - zenith
                      azimuth ==
                          azimuthOf(Atan2(sinHour,
                                          (cosHour * sinLat) \div Milli
                                            - (tanDecl * cosLat) \div Milli))
                  IN  [altitude |-> altitude, azimuth |-> azimuth,
                       declination |-> declination,
                       equationOfTime |-> equationOfTime] :
                  sinLat \in {Sin(deg2rad(lat))},
                  cosLat \in {Cos(deg2rad(lat))},
                  sinDecl \in {Sin(deg2rad(declination))},
                  cosDecl \in {Cos(deg2rad(declination))},
                  tanDecl \in {Tan(deg2rad(declination))},
                  sinHour \in {Sin(deg2rad(hourAngle))},
                  cosHour \in {Cos(deg2rad(hourAngle))}}) :
         sol \in {solarDeclinationAndEoT(toJulianDate(dateUtc).jc)}})

-----------------------------------------------------------------------------
(* The calls of getUtcDateFromLocal and solarPosition: the caller converts *)
(* a local time of the date and hands the instant, when there is one, to   *)
(* solarPosition (App.tsx:163-165).                                        *)

MinutesLocal == {0, 360, 725, 1440}

PosStart ==
    /\ minutesLocal \in MinutesLocal
    /\ offsetMinutes \in TzOffsets
    /\ utcDate = Null
    /\ position = Null
    /\ again = Null

\* neither function is called
PosIdle ==
    /\ minutesLocal = 0
    /\ offsetMinutes = 0
    /\ utcDate = Null
    /\ position = Null
    /\ again = Null

\* the coordinates and the date of the calls
PosInputs ==
    /\ latitude \in {d * Milli : d \in Latitudes}
    /\ longitude \in {d * Milli : d \in Longitudes}
    /\ dateString \in DateStrings
    /\ tzOffsetMinutes = 0
    /\ options = [sunAltitude |-> Null]
    /\ events = Null
    /\ twilight = Null

\* the call of getUtcDateFromLocal returns
GetUtcDateFromLocal ==
    /\ task \in {"position", "engine"}
    /\ utcDate = Null
    /\ utcDate' = Some(getUtcDateFromLocal(dateString, minutesLocal, offsetMinutes))
    /\ UNCHANGED <<minutesLocal, offsetMinutes, position, again, task,
                   winVars, sunVars, tzVars, angVars, auxVars>>

\* what a call of solarPosition with the caller's arguments returns: a
\* function of the arguments alone (solarPosition.ts:66-103 reads its
\* parameters and module constants only)
PositionOfCallMutSharedOffset ==
    solarPosition(latitude, longitude,
                  Num(utcDate[1][1].v
                        - (IF parsed # Null THEN parsed[1].minutes ELSE 0)))
PositionOfCall == solarPosition(latitude, longitude, utcDate[1][1])

\* the call of solarPosition returns (App.tsx:164: if (!utcDate) return null)
SolarPosition ==
    /\ task \in {"position", "engine"}
    /\ utcDate # Null /\ utcDate[1] # Null
    /\ position = Null
    /\ position' = Some(PositionOfCall)
    /\ UNCHANGED <<minutesLocal, offsetMinutes, utcDate, again, task,
                   winVars, sunVars, tzVars, angVars, auxVars>>

\* a later call of solarPosition with the same arguments returns
SolarPositionAgain ==
    /\ task = "engine"
    /\ position # Null
    /\ again = Null
    /\ again' = Some(PositionOfCall)
    /\ UNCHANGED <<minutesLocal, offsetMinutes, utcDate, position, task,
                   winVars, sunVars, tzVars, angVars, auxVars>>

NextPos == GetUtcDateFromLocal \/ SolarPosition

-----------------------------------------------------------------------------
(* The calls of normalizeDegrees                                           *)

\* angles of the scale from -720 to 720 degrees, and the two doubles next
\* to zero
Angles ==
    {Angle(d * Milli + f) : d \in {-720, -540, -360, -180, -10, -1, 0, 1, 10,
                                  180, 350, 360, 540, 720},
                            f \in {-1, 0, 1, 500}}
      \cup {Tiny(-1), Tiny(1)}

AngStart ==
    /\ degrees \in Angles
    /\ result = Null

\* normalizeDegrees is not called
AngIdle ==
    /\ degrees = Angle(0)
    /\ result = Null

\* the call of normalizeDegrees returns
NormalizeDegrees ==
    /\ task = "angle"
    /\ result = Null
    /\ result' = Some(normalizeDegrees(degrees))
    /\ UNCHANGED <<degrees, task, winVars, sunVars, tzVars, posVars, auxVars>>

NextAng == NormalizeDegrees

-----------------------------------------------------------------------------
(* The engine functions called in any order on the inputs of one caller,   *)
(* solarPosition twice (App.tsx:150-175)                                   *)

EngineStart ==
    /\ latitude \in {45 * Milli, 70 * Milli}
    /\ longitude \in {0, 120 * Milli}
    /\ dateString \in { <<"2", "0", "2", "4", "-", "0", "6", "-", "2", "1">>,
                        <<"2", "0", "2", "4", "-", "1", "2", "-", "2", "1">> }
    /\ tzOffsetMinutes \in {0, 480 * Milli}
    /\ options = [sunAltitude |-> Null]
    /\ events = Null
    /\ twilight = Null
    /\ minutesLocal \in {360, 725}
    /\ offsetMinutes \in {0, 480}
    /\ utcDate = Null
    /\ position = Null
    /\ again = Null
    /\ input \in { <<"+", "0", "8", ":", "0", "0">>, <<"-", "5", "3", "0">> }
    /\ parsed = Null

NextEngine ==
    \/ GetUtcDateFromLocal
    \/ SolarPosition
    \/ SolarPositionAgain
    \/ ParseTimezoneOffset
    \/ SunriseSunset

-----------------------------------------------------------------------------
(* The steps modelled on their own: idle values                            *)

\* lines 76-80 of solarPosition are not reached
StIdle ==
    /\ solarBase = 0
    /\ solarLongitude = [v |-> 0, tiny |-> 0]
    /\ solarTime = Null

\* toJulianDate is not called
JulIdle ==
    /\ instant = Num(0)
    /\ julian = Null

\* formatTimezoneOffset is not called
FmtIdle ==
    /\ totalMinutes = 0
    /\ formatted = Null

\* formatTimeWithOffset is not called
ClockIdle ==
    /\ timeInput = [v |-> 0, huge |-> 0]
    /\ clockMinutes = [v |-> 0, huge |-> 0]
    /\ dayOffset = 0
    /\ clockPc = "idle"
    /\ rendered = Null

\* base = utcMinutes + equationOfTime of the instants of a day (the
\* equation of time is within about 17 minutes of 0), in milli-minutes
SolarBases ==
    {m * Milli + e : m \in {0, 360, 720, 1439}, e \in {-14 * Milli, -1812, 0, 1812}}

\* longitudes: the values of the scale and the doubles next to them; for a
\* base b the longitude -b / 4 is among them
SolarLongitudes ==
    {[v |-> l, tiny |-> t] :
        l \in {d * Milli : d \in Longitudes} \cup {-453, 0, 453, 3500, -90 * Milli},
        t \in {-1, 0, 1}}

StStart ==
    /\ solarBase \in SolarBases
    /\ solarLongitude \in SolarLongitudes
    /\ solarTime = Null

\* solarPosition.ts:76-80   solarPosition passes lines 76 to 80
TrueSolarTime ==
    /\ task = "solartime"
    /\ solarTime = Null
    /\ solarTime' =
          Some(The({[trueSolarTime |-> t, hourAngle |-> hourAngleOfSolarTime(t)] :
                    t \in {trueSolarTimeOf(solarSumOf(solarBase, solarLongitude))}}))
    /\ UNCHANGED <<solarBase, solarLongitude, julVars, fmtVars, clockVars>>
    /\ UNCHANGED <<task, winVars, sunVars, tzVars, posVars, angVars>>

NextSt == TrueSolarTime

\* instants handed to toJulianDate, as time values in minutes: every half
\* day around the Unix epoch, around 2000-01-01T12:00:00Z and in June 2024
HalfDays == (-3 .. 3) \cup (21880 .. 21950) \cup (39780 .. 39800)
Instants == {Num(720 * k) : k \in HalfDays}

JulStart ==
    /\ instant \in Instants
    /\ julian = Null

\* the call of toJulianDate returns
ToJulianDate ==
    /\ task = "julian"
    /\ julian = Null
    /\ julian' = Some(toJulianDate(instant))
    /\ UNCHANGED <<instant, stVars, fmtVars, clockVars>>
    /\ UNCHANGED <<task, winVars, sunVars, tzVars, posVars, angVars>>

NextJul == ToJulianDate

-----------------------------------------------------------------------------
(* timezone.ts: formatTimezoneOffset, and the round trip through           *)
(* parseTimezoneOffset                                                     *)

\* Number.prototype.toString() of a non-negative integer: its decimal digits
RECURSIVE toString(_)
toString(n) ==
    IF n < 10 THEN <<CHOOSE c \in Digits : DigitValue(c) = n>>
    ELSE Append(toString(n \div 10), CHOOSE c \in Digits : DigitValue(c) = n % 10)

\* String.prototype.padStart(targetLength, '0')
RECURSIVE padStart(_, _)
padStart(str, targetLength) ==
    IF Len(str) >= targetLength THEN str ELSE padStart(<<"0">> \o str, targetLength)

formatTimezoneOffsetMutPlus(offset) ==
    LET abs == IF offset < 0 THEN -offset ELSE offset
    IN  <<"U", "T", "C", "+">> \o padStart(toString(abs \div 60), 2)
          \o <<":">> \o padStart(toString(abs % 60), 2)
\* timezone.ts:114-120   formatTimezoneOffset(totalMinutes)
formatTimezoneOffset(offset) ==
    LET sign == IF offset >= 0 THEN "+" ELSE "-"
        abs == IF offset < 0 THEN -offset ELSE offset
        hours == abs \div 60
        mins == abs % 60
    IN  <<"U", "T", "C", sign>> \o padStart(toString(hours), 2)
          \o <<":">> \o padStart(toString(mins), 2)

\* the offsets parseTimezoneOffset returns as valid: sign * (hours * 60 +
\* minutes) with hours <= 14 and minutes < 60 (timezone.ts:107-111)
ValidOffsets == -(14 * 60 + 59) .. (14 * 60 + 59)

FmtStart ==
    /\ totalMinutes \in ValidOffsets
    /\ formatted = Null

\* the call of formatTimezoneOffset returns, and the caller hands the text
\* to parseTimezoneOffset
FormatTimezoneOffset ==
    /\ task = "format"
    /\ formatted = Null
    /\ formatted' = Some(formatTimezoneOffset(totalMinutes))
    /\ input' = formatTimezoneOffset(totalMinutes)
    /\ UNCHANGED <<totalMinutes, parsed, stVars, julVars, clockVars>>
    /\ UNCHANGED <<task, winVars, sunVars, posVars, angVars>>

NextFmt == FormatTimezoneOffset \/ ParseTimezoneOffset

-----------------------------------------------------------------------------
(* time.ts: formatTimeWithOffset, statement by statement                   *)

\* A finite number handed to formatTimeWithOffset: a value of the scale
\* (huge = 0), or a double so large that adding or subtracting 1440 returns
\* the same double (1e20, say; huge = its sign).
Exact(v) == [v |-> v, huge |-> 0]
Huge(sign) == [v |-> 0, huge |-> sign]

\* x < 0 and x >= 1440 of such a number
BelowZero(x) == x.huge < 0 \/ (x.huge = 0 /\ x.v < 0)
AtLeastADay(x) == x.huge > 0 \/ (x.huge = 0 /\ x.v >= 1440)

\* x + k as a double
PlusMinutes(x, k) == IF x.huge # 0 THEN x ELSE Exact(x.v + k)

\* time.ts:29   Math.round(totalMinutes): the nearest integer, halves
\* upwards; the argument in milli-minutes, the value in whole minutes
round(x) == IF x.huge # 0 THEN x ELSE Exact((x.v + 500) \div Milli)

\* dayOffset -= 1 and dayOffset += 1 as doubles: the counter stops changing
\* at the largest integer that doubles count to, MaxDayOffset here
MaxDayOffset == 4
Count(d, step) ==
    IF d + step > MaxDayOffset \/ d + step < -MaxDayOffset THEN d ELSE d + step

\* the digits of an integer, with "-" for a negative one (template literal)
numberText(n) == IF n < 0 THEN <<"-">> \o toString(-n) ELSE toString(n)

\* time.ts:39-44   the text returned for the values of minutes and dayOffset
\* the loops ended with
timeText(mins, days) ==
    LET hours == mins \div 60
        base == padStart(toString(hours), 2) \o <<":">>
                  \o padStart(toString(mins % 60), 2)
        sign == IF days > 0 THEN <<"+">> ELSE <<>>
    IN  IF days = 0 THEN base
        ELSE base \o <<" ", "(">> \o sign \o numberText(days) \o <<")">>

\* the numbers handed to formatTimeWithOffset, in milli-minutes: times of
\* day with and without a fraction, up to two days before and after, and
\* the two huge numbers
TimeInputs ==
    {Exact(d * 1440 * Milli + m * Milli + f) :
        d \in -2 .. 2, m \in {0, 59, 60, 725, 1439}, f \in {0, 499, 500}}
      \cup {Huge(-1), Huge(1)}

ClockStart ==
    /\ timeInput \in TimeInputs
    /\ clockMinutes = Exact(0)
    /\ dayOffset = 0
    /\ clockPc = "enter"
    /\ rendered = Null

\* time.ts:29-30   let minutes = Math.round(totalMinutes); let dayOffset = 0
ClockRound ==
    /\ task = "clock"
    /\ clockPc = "enter"
    /\ clockMinutes' = round(timeInput)
    /\ dayOffset' = 0
    /\ clockPc' = "below"
    /\ UNCHANGED <<timeInput, rendered, stVars, julVars, fmtVars>>
    /\ UNCHANGED <<task, winVars, sunVars, tzVars, posVars, angVars>>

\* time.ts:31   while (minutes < 0)
ClockTestBelow ==
    /\ task = "clock"
    /\ clockPc = "below"
    /\ clockPc' = IF BelowZero(clockMinutes) THEN "belowBody" ELSE "above"
    /\ UNCHANGED <<timeInput, clockMinutes, dayOffset, rendered>>
    /\ UNCHANGED <<stVars, julVars, fmtVars>>
    /\ UNCHANGED <<task, winVars, sunVars, tzVars, posVars, angVars>>

\* time.ts:32-33   minutes += 1440; dayOffset -= 1
ClockBodyBelow ==
    /\ task = "clock"
    /\ clockPc = "belowBody"
    /\ clockMinutes' = PlusMinutes(clockMinutes, 1440)
    /\ dayOffset' = Count(dayOffset, -1)
    /\ clockPc' = "below"
    /\ UNCHANGED <<timeInput, rendered, stVars, julVars, fmtVars>>
    /\ UNCHANGED <<task, winVars, sunVars, tzVars, posVars, angVars>>

\* time.ts:35   while (minutes >= 1440)
ClockTestAbove ==
    /\ task = "clock"
    /\ clockPc = "above"
    /\ clockPc' = IF AtLeastADay(clockMinutes) THEN "aboveBody" ELSE "format"
    /\ UNCHANGED <<timeInput, clockMinutes, dayOffset, rendered>>
    /\ UNCHANGED <<stVars, julVars, fmtVars>>
    /\ UNCHANGED <<task, winVars, sunVars, tzVars, posVars, angVars>>

\* time.ts:36-37   minutes -= 1440; dayOffset += 1
ClockBodyAbove ==
    /\ task = "clock"
    /\ clockPc = "aboveBody"
    /\ clockMinutes' = PlusMinutes(clockMinutes, -1440)
    /\ dayOffset' = Count(dayOffset, 1)
    /\ clockPc' = "above"
    /\ UNCHANGED <<timeInput, rendered, stVars, julVars, fmtVars>>
    /\ UNCHANGED <<task, winVars, sunVars, tzVars, posVars, angVars>>

\* time.ts:39-44   the text is built and returned
ClockReturn ==
    /\ task = "clock"
    /\ clockPc = "format"
    /\ rendered' = Some(timeText(clockMinutes.v, dayOffset))
    /\ clockPc' = "done"
    /\ UNCHANGED <<timeInput, clockMinutes, dayOffset, stVars, julVars, fmtVars>>
    /\ UNCHANGED <<task, winVars, sunVars, tzVars, posVars, angVars>>

NextClock ==
    \/ ClockRound
    \/ ClockTestBelow
    \/ ClockBodyBelow
    \/ ClockTestAbove
    \/ ClockBodyAbove
    \/ ClockReturn

AuxIdle == StIdle /\ JulIdle /\ FmtIdle /\ ClockIdle

-----------------------------------------------------------------------------
(* Specifications                                                          *)

InitWin == task = "photo" /\ WinStart /\ SunIdle /\ TzIdle /\ PosIdle /\ AngIdle
    /\ AuxIdle
InitSun == task = "sun" /\ WinIdle /\ SunStart /\ TzIdle /\ PosIdle /\ AngIdle
    /\ AuxIdle
InitTz == task = "timezone" /\ WinIdle /\ SunIdle /\ TzStart /\ PosIdle /\ AngIdle
    /\ AuxIdle
InitPos == task = "position" /\ WinIdle /\ PosInputs /\ TzIdle /\ PosStart /\ AngIdle
    /\ AuxIdle
InitAng == task = "angle" /\ WinIdle /\ SunIdle /\ TzIdle /\ PosIdle /\ AngStart
    /\ AuxIdle
InitEngine == task = "engine" /\ WinIdle /\ EngineStart /\ AngIdle
    /\ AuxIdle
InitPar ==
    task = "concurrent" /\ WinConcurrent /\ SunIdle /\ TzIdle /\ PosIdle /\ AngIdle
    /\ AuxIdle

InitSt ==
    task = "solartime" /\ WinIdle /\ SunIdle /\ TzIdle /\ PosIdle /\ AngIdle
    /\ StStart /\ JulIdle /\ FmtIdle /\ ClockIdle

InitJul ==
    task = "julian" /\ WinIdle /\ SunIdle /\ TzIdle /\ PosIdle /\ AngIdle
    /\ StIdle /\ JulStart /\ FmtIdle /\ ClockIdle

InitFmt ==
    task = "format" /\ WinIdle /\ SunIdle /\ TzIdle /\ PosIdle /\ AngIdle
    /\ StIdle /\ JulIdle /\ FmtStart /\ ClockIdle

InitClock ==
    task = "clock" /\ WinIdle /\ SunIdle /\ TzIdle /\ PosIdle /\ AngIdle
    /\ StIdle /\ JulIdle /\ FmtIdle /\ ClockStart

SpecWin == InitWin /\ [][NextWin]_vars
SpecSun == InitSun /\ [][NextSun]_vars
SpecTz == InitTz /\ [][NextTz]_vars
SpecPos == InitPos /\ [][NextPos]_vars
SpecAng == InitAng /\ [][NextAng]_vars
SpecPar == InitPar /\ [][NextWin]_vars
SpecEngine == InitEngine /\ [][NextEngine]_vars
SpecSt == InitSt /\ [][NextSt]_vars
SpecClock == InitClock /\ [][NextClock]_vars
\* a call that has been entered keeps executing its statements
SpecClockLive == SpecClock /\ WF_vars(NextClock)
SpecFmt == InitFmt /\ [][NextFmt]_vars
SpecJul == InitJul /\ [][NextJul]_vars

Init == InitWin \/ InitSun \/ InitTz \/ InitPos \/ InitAng \/ InitPar
          \/ InitEngine \/ InitSt \/ InitJul \/ InitFmt \/ InitClock
Next == NextWin \/ NextSun \/ NextTz \/ NextPos \/ NextAng \/ NextEngine
          \/ NextSt \/ NextJul \/ NextFmt \/ NextClock
Spec == Init /\ [][Next]_vars

-----------------------------------------------------------------------------
(* Claims about findWindows / computePhotoWindows (checked under SpecWin)  *)

\* the positions a .. b form a maximal run of samples with altitude in
\* [lo, hi] (stated on the series alone)
IsRun(series, lo, hi, a, b) ==
    /\ a <= b
    /\ \A k \in a .. b : series[k].altitude >= lo /\ series[k].altitude <= hi
    /\ a = 1 \/ ~(series[a - 1].altitude >= lo /\ series[a - 1].altitude <= hi)
    /\ b = Len(series)
         \/ ~(series[b + 1].altitude >= lo /\ series[b + 1].altitude <= hi)

RunsOf(series, lo, hi) ==
    {ab \in (1 .. Len(series)) \X (1 .. Len(series)) :
        IsRun(series, lo, hi, ab[1], ab[2])}

\* the windows of the maximal runs, in sample order
ExpectedWindows(series, lo, hi) ==
    LET runs == RunsOf(series, lo, hi)
        nth(j) == CHOOSE ab \in runs :
                     Cardinality({cd \in runs : cd[1] < ab[1]}) = j - 1
    IN  [j \in 1 .. Cardinality(runs) |->
            [start |-> series[nth(j)[1]].minute, end |-> series[nth(j)[2]].minute]]

\* C1: every list findWindows returns (and so each list of the result of
\* computePhotoWindows) is exactly the sequence of maximal contiguous runs
\* of in-range samples (bounds inclusive), one window per run in sample
\* order, start = minute of the run's first sample, end = minute of its
\* last sample, a run open at the end of the series included.
C1_MaximalRuns ==
    /\ \A s \in Scans :
          pc[s] = "ret" =>
            windows[s] = ExpectedWindows(altitudeByMinute, rangeOf(s)[1], rangeOf(s)[2])
    /\ photo # Null =>
          /\ photo[1].golden
               = ExpectedWindows(altitudeByMinute, goldenRange[1], goldenRange[2])
          /\ photo[1].blue
               = ExpectedWindows(altitudeByMinute, blueRange[1], blueRange[2])

\* C1 witness: a returned result with two golden windows, the second of
\* them a run that was still open when the series ended, on a bound.
C1_Witness ==
    /\ photo # Null
    /\ Len(photo[1].golden) = 2
    /\ Len(altitudeByMinute) = MaxLen
    /\ altitudeByMinute[MaxLen].altitude = goldenRange[2]
    /\ altitudeByMinute[1].altitude = goldenRange[1]

\* the series is sampled at strictly increasing minutes
SortedByMinute(series) ==
    \A k \in 1 .. Len(series) - 1 : series[k].minute < series[k + 1].minute

\* the altitude rises monotonically to one maximum and then falls
RisesThenFalls(series) ==
    \E p \in 2 .. Len(series) - 1 :
        /\ \A k \in 1 .. p - 1 : series[k].altitude < series[k + 1].altitude
        /\ \A k \in p .. Len(series) - 1 : series[k].altitude > series[k + 1].altitude

PassesThrough(series, lo, hi) ==
    \E k \in 1 .. Len(series) : series[k].altitude >= lo /\ series[k].altitude <= hi

\* the case of claim C2: default ranges, a rising-then-falling daily curve
\* that passes through both bands, and computePhotoWindows has returned
C2_Case ==
    /\ photo # Null
    /\ goldenRange = GOLDEN_DEFAULT /\ blueRange = BLUE_DEFAULT
    /\ SortedByMinute(altitudeByMinute)
    /\ RisesThenFalls(altitudeByMinute)
    /\ PassesThrough(altitudeByMinute, -6, 0)
    /\ PassesThrough(altitudeByMinute, 0, 6)

\* a window is a contiguous sub-range of the sampled minutes: it starts and
\* ends on sampled minutes and every sample between them is in range
ContiguousSubRange(series, w, lo, hi) ==
    /\ w.start <= w.end
    /\ \E a, b \in 1 .. Len(series) :
          /\ a <= b /\ series[a].minute = w.start /\ series[b].minute = w.end
          /\ \A k \in a .. b : series[k].altitude >= lo /\ series[k].altitude <= hi

\* C2 as stated: in that case there is exactly one golden window and
\* exactly one blue window.
C2_Original ==
    C2_Case => Len(photo[1].golden) = 1 /\ Len(photo[1].blue) = 1

\* C2 amended: in that case there are one or two golden windows and one or
\* two blue windows (one per crossing of the band), each a contiguous
\* sub-range of the sampled minutes.
C2_OneOrTwoWindows ==
    C2_Case =>
        /\ Len(photo[1].golden) \in {1, 2}
        /\ Len(photo[1].blue) \in {1, 2}
        /\ \A j \in 1 .. Len(photo[1].golden) :
              ContiguousSubRange(altitudeByMinute, photo[1].golden[j], 0, 6)
        /\ \A j \in 1 .. Len(photo[1].blue) :
              ContiguousSubRange(altitudeByMinute, photo[1].blue[j], -6, 0)

\* C2 witness: a rising-then-falling curve crossing both bands twice
C2_Witness ==
    C2_Case /\ Len(photo[1].golden) = 2 /\ Len(photo[1].blue) = 2

-----------------------------------------------------------------------------
(* Claims about sunriseSunset / twilightTimes (checked under SpecSun)      *)

\* every component of the civil date parses to a finite integer
Parseable(dateStr) ==
    /\ isFinite(parseInt(element(split(dateStr), 1)))
    /\ isFinite(parseInt(element(split(dateStr), 2)))
    /\ isFinite(parseInt(element(split(dateStr), 3)))

\* declination and equation of time of a parseable civil date
AnglesOfDate(dateStr) ==
    solarDeclinationAndEoT(
        toJulianDate(DateUTC(parseInt(element(split(dateStr), 1)).v,
                             parseInt(element(split(dateStr), 2)).v - 1,
                             parseInt(element(split(dateStr), 3)).v)).jc)

\* the target altitude of the call of sunriseSunset
AltitudeOfCall == IF options.sunAltitude # Null THEN options.sunAltitude[1] ELSE -833

\* the cosH that the call of sunriseSunset solves for (parseable date)
CosHOfCall ==
    solveCosH(90 * Milli - AltitudeOfCall, deg2rad(latitude),
              AnglesOfDate(dateString).declination)

\* 720 - 4 * longitude - EoT of the call (parseable date)
NoonUtcOfCall ==
    Sub(Num(720 * Milli - 4 * longitude), AnglesOfDate(dateString).equationOfTime)

\* C3: with a parseable date, cosH > 1 gives status 'polar-night' with
\* sunriseMinutes = sunsetMinutes = null and daylightMinutes = 0, and
\* 'polar-night' is the status in no other case.
C3_PolarNight ==
    events # Null =>
        /\ (Parseable(dateString) /\ Gt(CosHOfCall, Num(Milli)))
             <=> events[1].status = "polar-night"
        /\ events[1].status = "polar-night" =>
             /\ events[1].sunriseMinutes = Null
             /\ events[1].sunsetMinutes = Null
             /\ events[1].daylightMinutes = Some(Num(0))

\* C3 witness: a polar-night result has been returned
C3_Witness ==
    /\ events # Null
    /\ events[1].status = "polar-night"
    /\ Gt(CosHOfCall, Num(Milli))

\* C4: with a parseable date, cosH < -1 gives status 'polar-day' with
\* sunriseMinutes = sunsetMinutes = null and daylightMinutes = 1440, and
\* 'polar-day' is the status in no other case.
C4_PolarDay ==
    events # Null =>
        /\ (Parseable(dateString) /\ Lt(CosHOfCall, Num(-Milli)))
             <=> events[1].status = "polar-day"
        /\ events[1].status = "polar-day" =>
             /\ events[1].sunriseMinutes = Null
             /\ events[1].sunsetMinutes = Null
             /\ events[1].daylightMinutes = Some(Num(1440 * Milli))

\* C4 witness: a polar-day result has been returned
C4_Witness ==
    /\ events # Null
    /\ events[1].status = "polar-day"
    /\ Lt(CosHOfCall, Num(-Milli))

\* the case of claim C5: a parseable date and -1 <= cosH <= 1
C5_Case ==
    /\ events # Null
    /\ Parseable(dateString)
    /\ Le(Num(-Milli), CosHOfCall)
    /\ Le(CosHOfCall, Num(Milli))

\* C5: in that case the status is 'normal' and, with H = acos(cosH) in
\* degrees, sunrise = solarNoonUtc - 4 H + tz, sunset = solarNoonUtc + 4 H
\* + tz and daylight = 8 H; sunrise and sunset are symmetric about solar
\* noon.
C5_NormalDay ==
    C5_Case =>
        LET H == rad2deg(Acos(CosHOfCall.v))
            noonUtc == NoonUtcOfCall.v
            e == events[1]
        IN  /\ e.status = "normal"
            /\ e.sunriseMinutes = Some(Num(noonUtc - 4 * H + tzOffsetMinutes))
            /\ e.sunsetMinutes = Some(Num(noonUtc + 4 * H + tzOffsetMinutes))
            /\ e.daylightMinutes = Some(Num(8 * H))
            /\ e.solarNoonMinutes # Null
            /\ e.sunsetMinutes[1].v - e.solarNoonMinutes[1].v
                 = e.solarNoonMinutes[1].v - e.sunriseMinutes[1].v

\* C5 witness: a normal day with sunrise strictly before sunset
C5_Witness ==
    /\ C5_Case
    /\ events[1].sunriseMinutes # Null
    /\ Lt(events[1].sunriseMinutes[1], events[1].sunsetMinutes[1])

\* solarNoonMinutes of a result is 720 - 4 * longitude - EoT + tz, and the
\* same value is returned at every other latitude and for every other
\* target altitude
NoonAsComputed ==
    /\ events[1].solarNoonMinutes = Some(Add(NoonUtcOfCall, Num(tzOffsetMinutes)))
    /\ \A lat \in Latitudes :
          sunriseSunset(lat * Milli, longitude, dateString, tzOffsetMinutes,
                        options).solarNoonMinutes
            = events[1].solarNoonMinutes
    /\ \A opts \in [sunAltitude : SunAltitudes] :
          sunriseSunset(latitude, longitude, dateString, tzOffsetMinutes,
                        opts).solarNoonMinutes
            = events[1].solarNoonMinutes

\* C6 as stated: every result of sunriseSunset has a non-null
\* solarNoonMinutes, equal to 720 - 4 * longitude - EoT + tz, whatever the
\* target altitude, the latitude and the status.
C6_Original ==
    events # Null => events[1].solarNoonMinutes # Null /\ NoonAsComputed

\* C6 amended: every result for a parseable date has a non-null
\* solarNoonMinutes, the value of 720 - 4 * longitude - EoT + tz, whatever
\* the target altitude, the latitude and the status; the result for an
\* unparseable date has solarNoonMinutes = null.
C6_SolarNoon ==
    events # Null =>
        IF Parseable(dateString)
        THEN events[1].solarNoonMinutes # Null /\ NoonAsComputed
        ELSE events[1].solarNoonMinutes = Null

\* C6 witness: polar results and normal results, at another latitude or
\* altitude, of the same date and longitude carry the same solar noon
C6_Witness ==
    /\ events # Null
    /\ events[1].status = "polar-day"
    /\ events[1].solarNoonMinutes # Null
    /\ isFinite(events[1].solarNoonMinutes[1])
    /\ \E lat \in Latitudes :
          sunriseSunset(lat * Milli, longitude, dateString, tzOffsetMinutes,
                        options).status = "normal"

\* C7: for an unparseable date sunriseSunset returns all four times null
\* with status 'normal', and every band of twilightTimes is (null, null).
C7_Unparseable ==
    ~Parseable(dateString) =>
        /\ events # Null =>
             events[1] = [sunriseMinutes |-> Null, sunsetMinutes |-> Null,
                          solarNoonMinutes |-> Null, daylightMinutes |-> Null,
                          status |-> "normal"]
        /\ twilight # Null =>
             /\ twilight[1].civil = [start |-> Null, end |-> Null]
             /\ twilight[1].nautical = [start |-> Null, end |-> Null]
             /\ twilight[1].astronomical = [start |-> Null, end |-> Null]

\* C7 witness: both functions have returned for a date whose year and
\* month parse and whose day is missing
C7_Witness ==
    /\ ~Parseable(dateString)
    /\ isFinite(parseInt(element(split(dateString), 1)))
    /\ isFinite(parseInt(element(split(dateString), 2)))
    /\ events # Null
    /\ twilight # Null

\* a nullable time moved by d milli-minutes
Shifted(t, d) == IF t = Null THEN Null ELSE Some(Add(t[1], Num(d)))

\* C8: no event time is wrapped into [0, 1440): the sunrise, sunset, solar
\* noon and twilight times computed with another offset tz2 are those
\* computed with the offset of the call, moved by the difference of the
\* offsets.
C8_NoWrap ==
    \A tz2 \in {m * Milli : m \in TzOffsets} :
        LET d == tz2 - tzOffsetMinutes
        IN  /\ events # Null =>
                LET e2 == sunriseSunset(latitude, longitude, dateString, tz2, options)
                IN  /\ e2.sunriseMinutes = Shifted(events[1].sunriseMinutes, d)
                    /\ e2.sunsetMinutes = Shifted(events[1].sunsetMinutes, d)
                    /\ e2.solarNoonMinutes = Shifted(events[1].solarNoonMinutes, d)
            /\ twilight # Null =>
                LET t2 == twilightTimes(latitude, longitude, dateString, tz2)
                IN  \A band \in {"civil", "nautical", "astronomical"} :
                        /\ t2[band].start = Shifted(twilight[1][band].start, d)
                        /\ t2[band].end = Shifted(twilight[1][band].end, d)

\* C8 witness: a sunrise and a start of civil twilight before local
\* midnight (below 0) have been returned as they are
C8_Witness ==
    /\ events # Null
    /\ events[1].sunriseMinutes # Null
    /\ Lt(events[1].sunriseMinutes[1], Num(0))
    /\ twilight # Null
    /\ twilight[1].civil.start # Null
    /\ Lt(twilight[1].civil.start[1], Num(0))

\* every time of the standard sunrise/sunset and of the three twilight
\* bands is non-null
AllTimesNonNull ==
    /\ events # Null /\ twilight # Null
    /\ options.sunAltitude = Null
    /\ events[1].sunriseMinutes # Null /\ events[1].sunsetMinutes # Null
    /\ events[1].solarNoonMinutes # Null
    /\ \A band \in {"civil", "nautical", "astronomical"} :
          twilight[1][band].start # Null /\ twilight[1][band].end # Null

\* astronomical.start <= nautical.start <= civil.start <= sunrise
\*   <= solar noon <= sunset <= civil.end <= nautical.end <= astronomical.end
TwilightChain ==
    /\ Le(twilight[1].astronomical.start[1], twilight[1].nautical.start[1])
    /\ Le(twilight[1].nautical.start[1], twilight[1].civil.start[1])
    /\ Le(twilight[1].civil.start[1], events[1].sunriseMinutes[1])
    /\ Le(events[1].sunriseMinutes[1], events[1].solarNoonMinutes[1])
    /\ Le(events[1].solarNoonMinutes[1], events[1].sunsetMinutes[1])
    /\ Le(events[1].sunsetMinutes[1], twilight[1].civil.end[1])
    /\ Le(twilight[1].civil.end[1], twilight[1].nautical.end[1])
    /\ Le(twilight[1].nautical.end[1], twilight[1].astronomical.end[1])

\* C9: whenever sunrise, sunset and the three twilight bands are non-null,
\* the nine times are in the order of TwilightChain.
C9_TwilightOrder == AllTimesNonNull => TwilightChain

\* the order holds whenever the times are non-null and the date is one that
\* Date can represent (the times are then finite)
C9_OrderOfFiniteTimes ==
    (AllTimesNonNull /\ isFinite(events[1].solarNoonMinutes[1])) => TwilightChain

-----------------------------------------------------------------------------
(* Claims about parseTimezoneOffset (checked under SpecTz)                 *)

\* C10: parseTimezoneOffset returns (480, true) for "+08:00", (0, true)
\* for "UTC", (0, false) for "+15:00" and (0, false) for the empty string.
C10_Examples ==
    parsed # Null =>
        /\ input = <<"+", "0", "8", ":", "0", "0">>
             => parsed[1] = [minutes |-> 480, isValid |-> TRUE]
        /\ input = <<"U", "T", "C">>
             => parsed[1] = [minutes |-> 0, isValid |-> TRUE]
        /\ input = <<"+", "1", "5", ":", "0", "0">>
             => parsed[1] = [minutes |-> 0, isValid |-> FALSE]
        /\ input = <<>>
             => parsed[1] = [minutes |-> 0, isValid |-> FALSE]

\* C10 witness: the call has returned for "+15:00"
C10_Witness ==
    /\ parsed # Null
    /\ input = <<"+", "1", "5", ":", "0", "0">>
    /\ parsed[1].isValid = FALSE

\* the decimal digit of d, and n written with one and with two digits
DigitOf(d) == CHOOSE c \in Digits : DigitValue(c) = d
OneDigit(n) == <<DigitOf(n)>>
TwoDigits(n) == <<DigitOf(n \div 10), DigitOf(n % 10)>>

\* the texts of the stated grammar and their offsets: an optional sign,
\* hours 0..14 written with one or two digits, and optionally minutes
\* 0..59 written with two digits, after an optional ":"
SignTexts == { <<>>, <<"+">>, <<"-">> }
HourTexts(h) == IF h < 10 THEN {OneDigit(h), TwoDigits(h)} ELSE {TwoDigits(h)}
MinuteTexts(m) ==
    (IF m = 0 THEN {<<>>} ELSE {}) \cup {TwoDigits(m), <<":">> \o TwoDigits(m)}
OffsetOf(sg, h, m) == (IF sg = <<"-">> THEN -1 ELSE 1) * (60 * h + m)

\* str begins with pre; what follows pre in str
StartsWith(str, pre) ==
    Len(str) >= Len(pre) /\ SubSeq(str, 1, Len(pre)) = pre
After(str, pre) == SubSeq(str, Len(pre) + 1, Len(str))

\* the offsets of the readings of str as a text of the grammar
GrammarOffsets(str) ==
    { OffsetOf(t[1], t[2], t[3]) :
        t \in { u \in SignTexts \X (0..14) \X (0..59) :
                 /\ StartsWith(str, u[1])
                 /\ \E ht \in HourTexts(u[2]) :
                       /\ StartsWith(After(str, u[1]), ht)
                       /\ After(After(str, u[1]), ht) \in MinuteTexts(u[3]) } }

\* the three names of UTC
UtcNames == { <<"Z">>, <<"U", "T", "C">>, <<"G", "M", "T">> }

\* the result the stated rule gives for the text str
StatedResult(str) ==
    IF str \in UtcNames THEN [minutes |-> 0, isValid |-> TRUE]
    ELSE IF GrammarOffsets(str) # {}
    THEN [minutes |-> CHOOSE v \in GrammarOffsets(str) : TRUE, isValid |-> TRUE]
    ELSE [minutes |-> 0, isValid |-> FALSE]

\* C11 as stated: parseTimezoneOffset accepts the input exactly when the
\* input itself is "Z", "UTC" or "GMT" or a text of the grammar, with the
\* offset of the grammar as result; every other input is rejected.
C11_Original ==
    parsed # Null => parsed[1].isValid = StatedResult(input).isValid

\* the input with surrounding white space removed and in upper case
Folded(str) == toUpperCase(trim(str))

\* C11 amended: the rule holds of the input after white space around it is
\* removed and it is put in upper case: it is accepted exactly when that text
\* is "Z", "UTC" or "GMT" or when, with a leading "UTC" and then a leading
\* "GMT" removed, it is a text of the grammar.
C11_Grammar ==
    parsed # Null =>
        IF Folded(input) \in UtcNames
        THEN parsed[1] = [minutes |-> 0, isValid |-> TRUE]
        ELSE parsed[1] =
               StatedResult(removePrefix(removePrefix(Folded(input),
                                                      <<"U", "T", "C">>),
                                         <<"G", "M", "T">>))

\* C11 witness: an input in lower case with a prefix and minutes without a
\* colon, which the rule as stated rejects, has been accepted
C11_Witness ==
    /\ parsed # Null
    /\ input = <<"u", "t", "c", "+", "0", "8", "0", "0">>
    /\ parsed[1] = [minutes |-> 480, isValid |-> TRUE]
    /\ ~StatedResult(input).isValid

\* C12: every offset that parseTimezoneOffset reports as valid is a whole
\* number of minutes in [-840, 840].
C12_ValidRange ==
    (parsed # Null /\ parsed[1].isValid) =>
        parsed[1].minutes \in -840..840

\* C13: whenever parseTimezoneOffset reports isValid = false it returns
\* minutes = 0; the call is defined for every input and returns a
\* (minutes, isValid) pair, so none ends in an exception.
C13_InvalidIsZero ==
    /\ parsed # Null =>
         /\ parsed[1] \in [minutes : Int, isValid : BOOLEAN]
         /\ ~parsed[1].isValid => parsed[1].minutes = 0
    /\ parsed = Null =>
         parseTimezoneOffset(input) \in [minutes : Int, isValid : BOOLEAN]

\* C13 witness: a text with minutes 60, whose hours and minutes are
\* numbers, has been rejected
C13_Witness ==
    /\ parsed # Null
    /\ input = <<"0", "8", ":", "6", "0">>
    /\ ~parsed[1].isValid

-----------------------------------------------------------------------------
(* Claims about getUtcDateFromLocal and solarPosition (checked under       *)
(* SpecPos)                                                                *)

\* UTC midnight of the civil date of a parseable date string, in minutes
BaseUtcOfCall ==
    DateUTC(parseInt(element(split(dateString), 1)).v,
            parseInt(element(split(dateString), 2)).v - 1,
            parseInt(element(split(dateString), 3)).v)

\* the call returned the instant of UTC midnight plus
\* (minutesLocal - offsetMinutes) minutes
ReturnsTheInstant ==
    /\ utcDate[1] # Null
    /\ isFinite(BaseUtcOfCall)
    /\ utcDate[1][1] = Num(BaseUtcOfCall.v + (minutesLocal - offsetMinutes))

IntegerText(c) ==
    /\ c # Null
    /\ LET str == c[1]
           b == IF str # <<>> /\ str[1] \in {"+", "-"} THEN 2 ELSE 1
       IN  /\ Len(str) >= b
           /\ \A i \in b..Len(str) : str[i] \in Digits

IntegerComponents(dateStr) ==
    \A i \in 1..3 : IntegerText(element(split(dateStr), i))

\* C15: getUtcDateFromLocal returns null for every date string in which
\* some year, month or day component is not an integer (text after the
\* digits and a missing component included) and a non-null instant
\* otherwise.
C15_NullIffNotInteger ==
    utcDate # Null => (utcDate[1] = Null <=> ~IntegerComponents(dateString))

\* null is returned for every date with a component that has no leading
\* integer, and for no date that Date can represent
C15_NullIffUnparseable ==
    utcDate # Null =>
        (utcDate[1] = Null <=>
            (~Parseable(dateString) \/ ~isFinite(BaseUtcOfCall)))

\* C17: for every latitude in [-90, 90], longitude in [-180, 180] and
\* instant, solarPosition returns an altitude in [-90, 90] and an azimuth
\* in [0, 360).
C17_Ranges ==
    position # Null =>
        /\ -90 * Milli <= position[1].altitude
        /\ position[1].altitude <= 90 * Milli
        /\ 0 <= position[1].azimuth
        /\ position[1].azimuth < 360 * Milli

\* C17 witness: at the pole, with the sun below the horizon and west of
\* north
C17_Witness ==
    /\ position # Null
    /\ latitude = 90 * Milli
    /\ position[1].altitude < 0
    /\ position[1].azimuth > 270 * Milli

-----------------------------------------------------------------------------
(* Claims about normalizeDegrees (checked under SpecAng)                   *)

\* r is in [0, 360)
InCircle(r) == ~IsNegative(r) /\ r.v < 360 * Milli

\* r and a differ by a whole number of turns
Congruent(r, a) == (r.v - a.v) % (360 * Milli) = 0 /\ r.tiny = a.tiny

\* C16: for every angle a, normalizeDegrees(a) lies in [0, 360), is
\* congruent to a modulo 360 and equals normalizeDegrees(a + 360).
C16_Normalized ==
    result # Null =>
        /\ InCircle(result[1])
        /\ Congruent(result[1], degrees)
        /\ result[1]
             = normalizeDegrees(Rounded(degrees.v + 360 * Milli, degrees.tiny))

\* the three properties hold of every angle of the scale, on which the
\* sums are exact
C16_OnScale == degrees.tiny = 0 => C16_Normalized


\* a nullable number that is present and is NaN
IsNaNField(f) == f # Null /\ f[1].nan

\* C18: sunriseSunset never returns status 'normal' with a non-null but
\* non-finite event field, whatever the date string.
C18_NoNaNFields ==
    (events # Null /\ events[1].status = "normal") =>
        /\ ~IsNaNField(events[1].sunriseMinutes)
        /\ ~IsNaNField(events[1].sunsetMinutes)
        /\ ~IsNaNField(events[1].solarNoonMinutes)
        /\ ~IsNaNField(events[1].daylightMinutes)

-----------------------------------------------------------------------------
(* Claims about interleaved calls of findWindows (checked under SpecPar)   *)

\* findWindows run alone from sample i on, with the accumulators st, last
\* and acc: the loop and the flush after it
RECURSIVE ScanAlone(_, _, _, _, _, _, _)
ScanAlone(series, lo, hi, i, st, last, acc) ==
    IF i > Len(series)
    THEN IF st # Null THEN Append(acc, closeWindow(st, last)) ELSE acc
    ELSE IF series[i].altitude >= lo /\ series[i].altitude <= hi
    THEN ScanAlone(series, lo, hi, i + 1,
                   IF st = Null THEN Some(series[i].minute) ELSE st,
                   Some(series[i].minute), acc)
    ELSE IF st # Null
    THEN ScanAlone(series, lo, hi, i + 1, Null, Null,
                   Append(acc, closeWindow(st, last)))
    ELSE ScanAlone(series, lo, hi, i + 1, st, last, acc)

\* C20: two calls of findWindows stepping through their loops in any
\* interleaving each keep the accumulators they would have when run alone
\* and each return the list they return when run alone.
C20_Interleaved ==
    \A s \in Scans :
        /\ pc[s] = "ret" =>
             windows[s] = ScanAlone(altitudeByMinute, rangeOf(s)[1], rangeOf(s)[2],
                                    1, Null, Null, <<>>)
        /\ pc[s] = "loop" =>
             ScanAlone(altitudeByMinute, rangeOf(s)[1], rangeOf(s)[2],
                       idx[s] + 1, start[s], lastMinute[s], windows[s])
               = ScanAlone(altitudeByMinute, rangeOf(s)[1], rangeOf(s)[2],
                           1, Null, Null, <<>>)

\* C20 witness: both loops are under way, the blue scan ahead of the
\* golden one, the golden scan with an open run and the blue scan with a
\* closed one
C20_Witness ==
    /\ pc["golden"] = "loop" /\ pc["blue"] = "loop"
    /\ 0 < idx["golden"] /\ idx["golden"] < idx["blue"]
    /\ start["golden"] # Null
    /\ start["blue"] = Null /\ windows["blue"] # <<>>

-----------------------------------------------------------------------------
(* Claims about repeated calls (checked under SpecEngine)                  *)

-----------------------------------------------------------------------------
(* C21: the instant at which declination and equation of time are taken    *)

\* local midnight of the civil date: UTC midnight of the date minus the
\* offset (a parseable date)
LocalMidnightOfCall ==
    Sub(DateUTC(parseInt(element(split(dateString), 1)).v,
                parseInt(element(split(dateString), 2)).v - 1,
                parseInt(element(split(dateString), 3)).v),
        Num(tzOffsetMinutes \div Milli))

\* declination and equation of time at that instant
AnglesAtLocalMidnight ==
    solarDeclinationAndEoT(toJulianDate(LocalMidnightOfCall).jc)

\* the result of sunriseSunset with the angles taken at local midnight
EventsAtLocalMidnight ==
    sunEvents(Sub(Num(720 * Milli - 4 * longitude),
                  AnglesAtLocalMidnight.equationOfTime),
              solveCosH(90 * Milli - AltitudeOfCall, deg2rad(latitude),
                        AnglesAtLocalMidnight.declination),
              tzOffsetMinutes)

\* C21: sunriseSunset evaluates declination and equation of time at local
\* midnight of the civil date, the UTC instant (UTC midnight of the date -
\* tzOffsetMinutes), so its result is the one computed from the angles of
\* that instant.
C21_LocalMidnight ==
    events # Null /\ Parseable(dateString) => events[1] = EventsAtLocalMidnight

\* what the code does: the angles are those of UTC midnight of the date,
\* whatever the offset
C21_UtcMidnight ==
    events # Null /\ Parseable(dateString) =>
        events[1] = sunEvents(NoonUtcOfCall, CosHOfCall, tzOffsetMinutes)

-----------------------------------------------------------------------------
(* C22: the twilight solver and the sunrise/sunset solver                  *)

\* the target altitude of each twilight band (twilight.ts:63-74)
BandAltitude(band) ==
    CASE band = "civil" -> -6 * Milli
      [] band = "nautical" -> -12 * Milli
      [] band = "astronomical" -> -18 * Milli

\* C22: for each target altitude a in {-6, -12, -18} twilightBand(..., a)
\* returns (start, end) equal to (sunriseMinutes, sunsetMinutes) of
\* sunriseSunset(..., {sunAltitude: a}) for the same latitude, longitude,
\* date and offset, and is null exactly when sunriseSunset returns null for
\* both.
C22_SameSolver ==
    twilight # Null =>
        \A band \in {"civil", "nautical", "astronomical"} :
            LET e == sunriseSunset(latitude, longitude, dateString,
                                   tzOffsetMinutes,
                                   [sunAltitude |-> Some(BandAltitude(band))])
                b == twilight[1][band]
            IN  /\ b.start = e.sunriseMinutes
                /\ b.end = e.sunsetMinutes
                /\ (b.start = Null /\ b.end = Null)
                     <=> (e.sunriseMinutes = Null /\ e.sunsetMinutes = Null)

\* C22 witness: a date on which the civil band has times, shifted by a
\* non-zero offset, and the astronomical band has none
C22_Witness ==
    /\ twilight # Null
    /\ Parseable(dateString)
    /\ tzOffsetMinutes # 0
    /\ twilight[1]["civil"].start # Null
    /\ isFinite(twilight[1]["civil"].start[1])
    /\ twilight[1]["astronomical"].start = Null

-----------------------------------------------------------------------------
(* C24: the argument of acos                                               *)

\* clamp(value, -1, 1) of a number: Math.min and Math.max return NaN for a
\* NaN operand (utils.ts clamp)
ClampedOfNumber(x) ==
    IF x.nan THEN NaN ELSE Num(clamp(x.v, -Milli, Milli))

\* the call of sunriseSunset reaches Math.acos (sunriseSunset.ts:79): the
\* date is parseable and neither polar branch returned
ReachesAcos ==
    /\ events # Null
    /\ Parseable(dateString)
    /\ ~isPolarNight(CosHOfCall)
    /\ ~isPolarDay(CosHOfCall)

\* C24: the argument passed to acos is within [-1, 1] on every path that
\* reaches the acos call.
C24_AcosArgument ==
    ReachesAcos =>
        /\ Le(Num(-Milli), ClampedOfNumber(CosHOfCall))
        /\ Le(ClampedOfNumber(CosHOfCall), Num(Milli))

\* with a date in the range of Date the argument is within [-1, 1]
C24_FiniteArgument ==
    ReachesAcos /\ isFinite(CosHOfCall) => C24_AcosArgument

-----------------------------------------------------------------------------
(* C26: invariants of a sunriseSunset result                               *)

\* C26: sunriseMinutes is null exactly when sunsetMinutes is null; status
\* is 'polar-day' or 'polar-night' only with both null and solarNoonMinutes
\* non-null; daylightMinutes, when non-null, is in [0, 1440]; and when
\* status is 'normal' with non-null events, daylightMinutes = sunsetMinutes
\* - sunriseMinutes.
C26_ResultInvariants ==
    events # Null =>
        LET e == events[1]
        IN  /\ e.sunriseMinutes = Null <=> e.sunsetMinutes = Null
            /\ e.status \in {"polar-day", "polar-night"} =>
                  /\ e.sunriseMinutes = Null
                  /\ e.sunsetMinutes = Null
                  /\ e.solarNoonMinutes # Null
            /\ e.daylightMinutes # Null =>
                  /\ Le(Num(0), e.daylightMinutes[1])
                  /\ Le(e.daylightMinutes[1], Num(1440 * Milli))
            /\ e.status = "normal" /\ e.sunriseMinutes # Null =>
                  e.daylightMinutes
                    = Some(Sub(e.sunsetMinutes[1], e.sunriseMinutes[1]))

\* the same for the results without a NaN field
C26_FiniteResults ==
    events # Null /\ C18_NoNaNFields => C26_ResultInvariants

-----------------------------------------------------------------------------
(* C27: the windows of a series sorted by strictly increasing minute       *)

\* sample k of the series is within the range of scan s
InRangeAt(s, k) ==
    /\ altitudeByMinute[k].altitude >= rangeOf(s)[1]
    /\ altitudeByMinute[k].altitude <= rangeOf(s)[2]

\* minute m lies in window w
InWindow(w, m) == w.start <= m /\ m <= w.end

\* C27: for an input sorted by strictly increasing minute, the windows
\* findWindows returns each have start <= end, appear in increasing order,
\* are pairwise disjoint with at least one out-of-range sample between
\* consecutive windows, and together contain the minute of every in-range
\* sample and of no out-of-range sample; an empty input or an input with no
\* in-range sample yields an empty list.
C27_SortedWindows ==
    \A s \in Scans :
        pc[s] = "ret" /\ SortedByMinute(altitudeByMinute) =>
            LET w == windows[s]
                n == Len(altitudeByMinute)
            IN  /\ \A j \in 1 .. Len(w) : w[j].start <= w[j].end
                /\ \A j \in 1 .. Len(w) - 1 :
                      /\ w[j].end < w[j + 1].start
                      /\ \E k \in 1 .. n :
                            /\ ~InRangeAt(s, k)
                            /\ w[j].end < altitudeByMinute[k].minute
                            /\ altitudeByMinute[k].minute < w[j + 1].start
                /\ \A k \in 1 .. n :
                      InRangeAt(s, k)
                        <=> \E j \in 1 .. Len(w) :
                               InWindow(w[j], altitudeByMinute[k].minute)
                /\ (\A k \in 1 .. n : ~InRangeAt(s, k)) => w = <<>>

\* C27 witness: a sorted series of three samples returned as two windows,
\* and an empty series returned as no window, both occur
C27_Witness ==
    /\ pc["golden"] = "ret"
    /\ SortedByMinute(altitudeByMinute)
    /\ Len(altitudeByMinute) = MaxLen
    /\ Len(windows["golden"]) = 2
    /\ windows["golden"][1].end < windows["golden"][2].start

\* an empty series returns an empty list
C27_WitnessEmpty ==
    /\ pc["golden"] = "ret"
    /\ altitudeByMinute = <<>>
    /\ windows["golden"] = <<>>

-----------------------------------------------------------------------------
(* C28: inclusive bounds and independent scans                             *)

\* some window of the list contains minute m
Covered(list, m) == \E j \in 1 .. Len(list) : InWindow(list[j], m)

\* the result of computePhotoWindows: with the default ranges a sample at
\* altitude exactly 0 is in a golden window and in a blue window, and each
\* list is the one findWindows returns for its own range alone
InclusiveAndIndependent ==
    photo # Null =>
        /\ photo[1].golden
             = ScanAlone(altitudeByMinute, goldenRange[1], goldenRange[2],
                         1, Null, Null, <<>>)
        /\ photo[1].blue
             = ScanAlone(altitudeByMinute, blueRange[1], blueRange[2],
                         1, Null, Null, <<>>)
        /\ goldenRange = GOLDEN_DEFAULT /\ blueRange = BLUE_DEFAULT
             /\ SortedByMinute(altitudeByMinute) =>
              \A k \in 1 .. Len(altitudeByMinute) :
                  altitudeByMinute[k].altitude = 0 =>
                      /\ Covered(photo[1].golden, altitudeByMinute[k].minute)
                      /\ Covered(photo[1].blue, altitudeByMinute[k].minute)

\* C28: with the default ranges both bounds are inclusive, so a sample whose
\* altitude is exactly 0 belongs to a golden window and to a blue window at
\* the same time; the golden and blue lists are computed independently over
\* the same series and neither scan changes the input series.
C28_InclusiveIndependentScans ==
    /\ []InclusiveAndIndependent
    /\ [][altitudeByMinute' = altitudeByMinute]_vars

\* C28 witness: a returned result for the default ranges whose series has a
\* sample at altitude 0 between a golden-only and a blue-only sample
C28_Witness ==
    /\ photo # Null
    /\ goldenRange = GOLDEN_DEFAULT /\ blueRange = BLUE_DEFAULT
    /\ SortedByMinute(altitudeByMinute)
    /\ Len(altitudeByMinute) = MaxLen
    /\ altitudeByMinute[1].altitude = 6
    /\ altitudeByMinute[2].altitude = 0
    /\ altitudeByMinute[3].altitude = -6
    /\ photo[1].golden # photo[1].blue

-----------------------------------------------------------------------------
(* C23: true solar time and hour angle of solarPosition (SpecSt)           *)

\* C23: in solarPosition, for every instant and longitude, the true solar
\* time used is in [0, 1440) and the hour angle derived from it is in
\* [-180, 180].
C23_SolarTimeRange ==
    solarTime # Null =>
        /\ ~IsNegative(solarTime[1].trueSolarTime)
        /\ solarTime[1].trueSolarTime.v < 1440 * Milli
        /\ solarTime[1].hourAngle >= -180 * Milli
        /\ solarTime[1].hourAngle <= 180 * Milli

\* the true solar time is in [0, 1440] and the hour angle in [-180, 180] in
\* every case, and the true solar time is below 1440 unless the sum is a
\* negative number next to zero
C23_ClosedRange ==
    solarTime # Null =>
        /\ ~IsNegative(solarTime[1].trueSolarTime)
        /\ solarTime[1].trueSolarTime.v <= 1440 * Milli
        /\ solarTime[1].hourAngle >= -180 * Milli
        /\ solarTime[1].hourAngle <= 180 * Milli
        /\ solarSumOf(solarBase, solarLongitude).tiny >= 0 => C23_SolarTimeRange

-----------------------------------------------------------------------------
(* C25: toJulianDate (SpecJul)                                             *)

\* 2000-01-01T12:00:00Z as a time value in minutes
J2000 == Num(21915 * 720)

\* jd is ms / 86400000 + 2440587.5 to a hundredth of a day and jc is
\* (jd - 2451545.0) / 36525 to a millionth of a century
JulianAsStated(date, r) ==
    LET unixDays == r.jd.v - 244058750
        sinceJ2000 == r.jd.v - 245154500
    IN  /\ isFinite(r.jd) /\ isFinite(r.jc)
        /\ unixDays * 144 <= date.v * 10
        /\ date.v * 10 < (unixDays + 1) * 144
        /\ r.jc.v * 1461 <= sinceJ2000 * 400
        /\ sinceJ2000 * 400 < (r.jc.v + 1) * 1461

\* C25: for every instant toJulianDate returns jd = ms / 86400000 +
\* 2440587.5 and jc = (jd - 2451545.0) / 36525; jc = 0 at
\* 2000-01-01T12:00:00Z, and jd and jc are strictly increasing in the
\* instant.
C25_JulianDate ==
    julian # Null =>
        /\ JulianAsStated(instant, julian[1])
        /\ instant = J2000 => julian[1].jd = Num(245154500) /\ julian[1].jc = Num(0)
        /\ \A later \in Instants :
              later.v > instant.v =>
                  /\ toJulianDate(later).jd.v > julian[1].jd.v
                  /\ toJulianDate(later).jc.v > julian[1].jc.v

\* C25 witness: the call for 2000-01-01T12:00:00Z returned, with instants
\* before and after it among the inputs
C25_Witness ==
    /\ julian # Null
    /\ instant = J2000
    /\ julian[1].jc = Num(0)
    /\ \E t \in Instants : t.v < instant.v /\ toJulianDate(t).jc.v < 0
    /\ \E t \in Instants : t.v > instant.v /\ toJulianDate(t).jc.v > 0

-----------------------------------------------------------------------------
(* C29: format, then parse (SpecFmt)                                       *)

\* C29: for every integer offset m that parseTimezoneOffset can produce as
\* valid (in particular every integer in [-840, 840]),
\* parseTimezoneOffset(formatTimezoneOffset(m)) returns (m, true).
C29_RoundTrip ==
    task = "format" /\ parsed # Null =>
        /\ input = formatted[1]
        /\ parsed[1] = [minutes |-> totalMinutes, isValid |-> TRUE]

\* C29 witness: a negative offset with a one-digit hour and non-zero
\* minutes went through both calls
C29_Witness ==
    /\ task = "format"
    /\ parsed # Null
    /\ totalMinutes = -(5 * 60 + 30)
    /\ formatted = Some(<<"U", "T", "C", "-", "0", "5", ":", "3", "0">>)
    /\ parsed[1].minutes = -330

-----------------------------------------------------------------------------
(* C30: formatTimeWithOffset (SpecClockLive)                               *)

\* the text HH:MM with the "(d)" suffix of a day offset d other than 0, an
\* explicit "+" for a positive d
TextOf(hh, mm, d) ==
    TwoDigits(hh) \o <<":">> \o TwoDigits(mm)
      \o (IF d = 0 THEN <<>>
          ELSE <<" ", "(">> \o (IF d > 0 THEN <<"+">> ELSE <<"-">>)
                 \o toString(IF d > 0 THEN d ELSE -d) \o <<")">>)

\* the returned text renders HH:MM and d with 0 <= HH <= 23, 0 <= MM <= 59
\* and round(totalMinutes) = 1440 d + 60 HH + MM
RenderedAsStated ==
    /\ rendered # Null
    /\ timeInput.huge = 0
    /\ \E d \in -MaxDayOffset .. MaxDayOffset, hh \in 0 .. 23, mm \in 0 .. 59 :
          /\ (timeInput.v + 500) \div Milli = 1440 * d + 60 * hh + mm
          /\ rendered[1] = TextOf(hh, mm, d)

\* C30: for every finite input formatTimeWithOffset terminates and renders
\* HH:MM with 0 <= HH <= 23 and 0 <= MM <= 59 plus a day offset d such that
\* round(totalMinutes) = 1440 d + 60 HH + MM; the "(d)" suffix is present
\* exactly when d # 0, with an explicit '+' for positive d.
C30_TerminatesAndRenders ==
    /\ task = "clock" => <>(clockPc = "done")
    /\ [](clockPc = "done" => RenderedAsStated)

\* for every input of the scale the call returns, and the text is as stated
C30_OrdinaryInputs ==
    /\ task = "clock" /\ timeInput.huge = 0 => <>(clockPc = "done")
    /\ [](clockPc = "done" => RenderedAsStated)

\* a call with a huge input is in one of its loops for ever
C30_HugeNeverReturns ==
    timeInput.huge # 0 =>
        clockPc \in {"enter", "below", "belowBody", "above", "aboveBody"}

=============================================================================
